---- MODULE Spec2Model ----
(***************************************************************************)
(* nccl: the scanner (src/src/scanner.rs, Scanner2), the recursive parser  *)
(* (src/src/parser.rs, parse / parse_with / parse_kv) and the Config tree  *)
(* (src/src/pair.rs and src/src/config.rs).                                *)
(*                                                                         *)
(* Text is a sequence of one-character strings.  Rust indexes from 0, TLA+ *)
(* from 1: source[i] of the code is source[i + 1] here.                    *)
(***************************************************************************)
EXTENDS Integers, Sequences, FiniteSets

VARIABLES
    scanner,    \* the Scanner2 a caller drives through next_token / peek_token
    ret,        \* what the last next_token / peek_token call returned
    calls,      \* number of next_token / peek_token calls made so far
    eofSeen,    \* TRUE once a next_token call has returned the EOF token
    doc,        \* description of the input the text was drawn from
    content,    \* the text handed to parse_config / parse_config_with
    original,   \* the seed tree handed to parse_config_with
    pair,       \* a Pair tree of the old interface
    config,     \* outcome of the last parse_config / parse_config_with call
    out,        \* outcomes of the other operations applied so far
    pc          \* position of the caller

vars == <<scanner, ret, calls, eofSeen, doc, content, original, pair, config, out, pc>>

(***************************************************************************)
(* Characters                                                              *)
(***************************************************************************)
NL == "\n"
CR == "\r"
TAB == "\t"
SP == " "
HASH == "#"
DQ == "\""
SQ == "'"
BSL == "\\"
\* byte 0: what peek_char returns at the end of the input
NUL == "NUL"

None == "None"

(***************************************************************************)
(* Bounds                                                                  *)
(***************************************************************************)
\* longest text given to a scanner driven call by call
MaxLen == 4
\* calls made on one scanner
MaxCalls == 4
\* largest index passed to peek_token
MaxPeek == 1
\* longest indentation of an added blank line
MaxIndent == 1
\* lines of a document
MaxLines == 5
\* widest space indentation of a document
MaxWidth == 2
\* lines of a seed document
MaxSeedLines == 2
\* lines of a document parsed on top of a seed
MaxOverlayLines == 3
\* lines of each text of two calls that share a seed
MaxShared == 2
\* levels below the children of the root of a tree built by hand
MaxTreeDepth == 1
\* characters after the opening quote of a text that opens with a quoted value
MaxQuoted == 4
\* length of the raw key of a node made by hand
MaxKey == 4
\* lines of a block of spelled keys
MaxSpelled == 3
\* length of a text whose loops are followed turn by turn
MaxLoopLen == 5
\* spaces in front of a line, lines of a block
MaxSpaces == 4
MaxBlock == 4
\* levels of a branch, characters of an indentation
MaxLevel == 2
MaxRun == 4
\* characters in front of a line and lines of a document indented in any way
MaxDent == 3
MaxDentLines == 3
\* length of a text that may spell the key of the root
MaxRootLen == 5
\* length of a text whose line terminators are replaced
MaxLinesLen == 6
\* elements of a path and calls that add to a Pair
MaxPath == 3
MaxAdds == 3
MaxOver == 4
MaxStreamLen == 5

IsPrefix(s, t) == Len(s) <= Len(t) /\ SubSeq(t, 1, Len(s)) = s

RECURSIVE SeqsUpTo(_, _)
\* all sequences over S of length at most n
SeqsUpTo(S, n) ==
    IF n = 0 THEN {<<>>}
    ELSE LET shorter == SeqsUpTo(S, n - 1)
         IN  shorter \cup {Append(s, c) : s \in {t \in shorter : Len(t) = n - 1}, c \in S}

(***************************************************************************)
(* Scanner2                                                                *)
(***************************************************************************)
\* overflow_checks is no field of Scanner2: it is the overflow-checks setting
\* the crate is built with (on in the dev and test profiles, off in release),
\* carried with the scanner so that the u8 arithmetic can follow it
ScannerNew(source) ==
    [source |-> source, tokens |-> <<>>, start |-> 0, current |-> 0,
     line |-> 1, column |-> 0, overflow_checks |-> TRUE]

\* u8::MAX
U8Max == 255

\* the exact result of an operation on u8 does not fit
overflows(x) == x > U8Max

\* what the operation leaves when the build does not check it
wrapping(x) == x % (U8Max + 1)

\* the panic of a checked operation
Overflow(s) == [status |-> "panic", sc |-> s, err |-> "overflow"]

is_at_end(s) == s.current >= Len(s.source)

peek_char(s) == IF is_at_end(s) THEN NUL ELSE s.source[s.current + 1]

\* the caller makes sure current < len; string_end models the call that does not
advance_char(s) == [s EXCEPT !.column = @ + 1, !.current = @ + 1]

reverse_char(s) == [s EXCEPT !.current = @ - 1]

RECURSIVE until_newline_lf_only(_)
\* until_newline that takes a carriage return for a character of the line
until_newline_lf_only(s) ==
    IF peek_char(s) # NL /\ ~is_at_end(s)
    THEN until_newline_lf_only(advance_char(s))
    ELSE s

RECURSIVE until_newline(_)
until_newline(s) ==
    IF peek_char(s) # NL /\ peek_char(s) # CR /\ ~is_at_end(s)
    THEN until_newline(advance_char(s))
    ELSE s

Token(kind, n, lexeme, line, column) ==
    [kind |-> kind, n |-> n, lexeme |-> lexeme, span |-> [line |-> line, column |-> column]]

add_token(s, kind, n) ==
    [s EXCEPT !.tokens = Append(@, Token(kind, n, SubSeq(s.source, s.start + 1, s.current),
                                         s.line, s.column))]

\* the scanner after n turns of a loop that does self.advance_char()
skip_run_to(s, n) == [s EXCEPT !.column = @ + n, !.current = @ + n]

\* the position where a run of characters of cs that starts at current ends
run_end(s, cs) ==
    CHOOSE j \in s.current..Len(s.source) :
        /\ j = Len(s.source) \/ s.source[j + 1] \notin cs
        /\ \A i \in (s.current + 1)..j : s.source[i] \in cs

\* while self.peek_char() is one of cs { self.advance_char(); }
\* (the loop's end is computed in one step: the runs can be hundreds long)
skip_run(s, cs) ==
    IF peek_char(s) \in cs THEN skip_run_to(s, run_end(s, cs) - s.current) ELSE s

ScanOk(s) == [status |-> "ok", sc |-> s, err |-> None]
ScanErr(s, e) == [status |-> "err", sc |-> s, err |-> e]
ScanPanic(s) == [status |-> "panic", sc |-> s, err |-> "index out of bounds"]

\* the tail of Scanner2::string, from "go past the last quote"
string_end(s) ==
    IF is_at_end(s)
    THEN \* advance_char reads source[len]: index out of bounds
         ScanPanic(s)
    ELSE LET s1 == add_token(advance_char(s), "Value", 0)
             s2 == skip_run(s1, {SP, TAB})
         IN  IF peek_char(s2) = NL \/ peek_char(s2) = CR THEN ScanOk(advance_char(s2))
             ELSE IF peek_char(s2) = HASH THEN ScanOk(until_newline(s2))
             ELSE ScanErr(s2, "TrailingCharacters")

RECURSIVE string_loop(_, _)
\* the while loop of Scanner2::string
string_loop(s, quote) ==
    IF peek_char(s) # quote /\ ~is_at_end(s)
    THEN LET s1 == IF peek_char(s) = NL THEN [s EXCEPT !.line = @ + 1] ELSE s
         IN  IF peek_char(s1) = BSL
             THEN LET a == advance_char(s1)
                  IN  IF peek_char(a) \in {"n", "r", BSL, DQ}
                      THEN string_loop(advance_char(a), quote)
                      ELSE IF peek_char(a) \in {CR, NL}
                      THEN string_loop(
                               advance_char(reverse_char(skip_run(advance_char(a), {SP, TAB}))),
                               quote)
                      ELSE ScanErr(a, "UnknownFormatCode")
             ELSE string_loop(advance_char(s1), quote)
    ELSE string_end(s)

string(s, quote) == string_loop(advance_char(s), quote)

\* stops at a '#' as well
RECURSIVE until_newline_or_hash(_)
until_newline_or_hash(s) ==
    IF peek_char(s) # NL /\ peek_char(s) # CR /\ peek_char(s) # HASH /\ ~is_at_end(s)
    THEN until_newline_or_hash(advance_char(s))
    ELSE s

\* a value that ends at the first '#', the rest of the line skipped
next_value_cutting_comment(s) ==
    LET s1 == [s EXCEPT !.start = s.current]
    IN  IF peek_char(s1) = DQ \/ peek_char(s1) = SQ
        THEN string(s1, peek_char(s1))
        ELSE ScanOk(until_newline(add_token(until_newline_or_hash(s1), "Value", 0)))

\* Scanner2::next after its loop: the value of the line
next_value(s) ==
    LET s1 == [s EXCEPT !.start = s.current]
    IN  IF peek_char(s1) = DQ \/ peek_char(s1) = SQ
        THEN string(s1, peek_char(s1))
        ELSE ScanOk(add_token(until_newline(s1), "Value", 0))

RECURSIVE next_loop(_)
\* the loop of Scanner2::next
next_loop(s) ==
    LET c == peek_char(s)
    IN  IF c = NUL
        THEN ScanOk(add_token([s EXCEPT !.start = 0, !.current = 0], "EOF", 0))
        ELSE IF c = NL \/ c = CR
        THEN LET a == advance_char(s) IN next_loop([a EXCEPT !.start = a.current])
        ELSE IF c = TAB \/ c = SP
        THEN LET t == skip_run(s, {c})
                 n == t.current - s.current
             IN  IF overflows(n) /\ s.overflow_checks
                 THEN Overflow(skip_run_to(s, U8Max))
                 ELSE IF peek_char(t) = HASH \/ peek_char(t) = NL \/ peek_char(t) = CR
                 THEN next_loop(until_newline(t))
                 ELSE next_value(add_token(t, IF c = TAB THEN "Tabs" ELSE "Spaces",
                                           wrapping(n)))
        ELSE IF c = HASH
        THEN next_loop(until_newline(s))
        ELSE next_value(s)

\* Scanner2::next: scans one line, pushing its indentation token (if any) and
\* its value token, or the EOF token
next(s) == next_loop([s EXCEPT !.start = s.current])

CallOk(s, tok) == [status |-> "ok", sc |-> s, tok |-> tok, err |-> None]
CallFail(r) == [status |-> r.status, sc |-> r.sc, tok |-> None, err |-> r.err]

pop_front(s) == CallOk([s EXCEPT !.tokens = Tail(@)], Head(s.tokens))

next_token(s) ==
    IF s.tokens = <<>>
    THEN LET r == next(s)
         IN  IF r.status # "ok" THEN CallFail(r) ELSE pop_front(r.sc)
    ELSE pop_front(s)

RECURSIVE peek_fill(_, _)
\* while self.tokens.len() <= idx { self.next()?; }
peek_fill(s, idx) ==
    IF Len(s.tokens) <= idx
    THEN LET r == next(s)
         IN  IF r.status # "ok" THEN CallFail(r) ELSE peek_fill(r.sc, idx)
    ELSE CallOk(s, s.tokens[idx + 1])

\* peek_token with the peeked token taken out of the buffer
peek_token_removing(s, idx) ==
    LET r == IF s.tokens = <<>>
             THEN LET r0 == next(s)
                  IN  IF r0.status # "ok" THEN CallFail(r0) ELSE peek_fill(r0.sc, idx)
             ELSE peek_fill(s, idx)
    IN  IF r.status # "ok" THEN r
        ELSE [r EXCEPT !.sc.tokens = SubSeq(@, 1, idx) \o SubSeq(@, idx + 2, Len(@))]

peek_token(s, idx) ==
    IF s.tokens = <<>>
    THEN LET r == next(s)
         IN  IF r.status # "ok" THEN CallFail(r) ELSE peek_fill(r.sc, idx)
    ELSE peek_fill(s, idx)

RECURSIVE scan_all(_)
\* Scanner2::scan_all: while self.next()?.kind != EOF {}; then every token pushed
scan_all(s) ==
    LET r == next(s)
    IN  IF r.status # "ok" THEN [status |-> r.status, tokens |-> <<>>, err |-> r.err, sc |-> r.sc]
        ELSE IF r.sc.tokens[Len(r.sc.tokens)].kind = "EOF"
        THEN [status |-> "ok", tokens |-> r.sc.tokens, err |-> None, sc |-> r.sc]
        ELSE scan_all(r.sc)


(***************************************************************************)
(* Config (the tree)                                                       *)
(***************************************************************************)
\* the key of the root: one symbol that stands for the text __top_level__
TOP_LEVEL_KEY == <<"__top_level__">>

\* Config::new; value is the IndexMap, as the sequence of its entries in
\* insertion order (each entry's map key is the child's key). The Config of
\* pair.rs has no quotes field: it is None here.
ConfigNew(key) == [key |-> key, quotes |-> None, value |-> <<>>]

\* position of the child with this key among the children, 0 when there is none
IndexOfKey(node, key) ==
    IF \E i \in 1..Len(node.value) : node.value[i].key = key
    THEN CHOOSE i \in 1..Len(node.value) : node.value[i].key = key
    ELSE 0

has_value(node, key) == IndexOfKey(node, key) # 0

\* impl Index<&str> for Config; the caller makes sure the key is there
Index(node, key) == node.value[IndexOfKey(node, key)]

\* add_child with a second entry pushed for a key that is already there
add_child_appending(node, child) == [node EXCEPT !.value = Append(@, child)]

\* self.value.insert(child.key, child): a key that is there keeps its place and
\* gets the new value, a new key goes last
add_child(node, child) ==
    IF has_value(node, child.key)
    THEN [node EXCEPT !.value[IndexOfKey(node, child.key)] = child]
    ELSE [node EXCEPT !.value = Append(@, child)]

values(node) == [i \in 1..Len(node.value) |-> node.value[i].key]

\* QuoteKind::char
QuoteChar(q) == IF q = "Single" THEN <<SQ>> ELSE IF q = "Double" THEN <<DQ>> ELSE <<>>

RECURSIVE Repeat(_, _)
Repeat(text, n) == IF n <= 0 THEN <<>> ELSE text \o Repeat(text, n - 1)

RECURSIVE pp(_, _)
RECURSIVE pp_children(_, _, _)
\* for (_, v) in self.value.iter() { s.push_str(&v.pp(indent + 1)); }
pp_children(node, i, indent) ==
    IF i > Len(node.value) THEN <<>>
    ELSE pp(node.value[i], indent + 1) \o pp_children(node, i + 1, indent)

\* Config::pp of config.rs: the root is not printed
pp(node, indent) ==
    (IF node.key # TOP_LEVEL_KEY /\ indent # 0
     THEN Repeat(<<SP, SP, SP, SP>>, indent - 1)
              \o QuoteChar(node.quotes) \o node.key \o QuoteChar(node.quotes) \o <<NL>>
     ELSE <<>>)
    \o pp_children(node, 1, indent)

\* Config::pretty_print and to_string of config.rs
to_string(node) == pp(node, 0)

RECURSIVE pair_pp(_, _)
RECURSIVE pair_pp_children(_, _, _)
pair_pp_children(node, i, indent) ==
    IF i > Len(node.value) THEN <<>>
    ELSE pair_pp(node.value[i], indent + 1) \o pair_pp_children(node, i + 1, indent)

\* Config::pp of pair.rs: every node is printed, the root too
pair_pp(node, indent) ==
    Repeat(<<SP, SP, SP, SP>>, indent) \o node.key \o <<NL>>
    \o pair_pp_children(node, 1, indent)

\* Config::pretty_print of pair.rs
pretty_print(node) == pair_pp(node, 0)

(***************************************************************************)
(* Parser                                                                  *)
(***************************************************************************)
TopLevel == [tag |-> "TopLevel", width |-> 0, level |-> 0]
IndentTabs(level) == [tag |-> "Tabs", width |-> 0, level |-> level]
IndentSpaces(width, level) == [tag |-> "Spaces", width |-> width, level |-> level]

\* the value of a call that ends in unreachable!(): no u8
Unreachable == 0 - 1

\* Option<u8>
NoWidth == <<>>
Some(w) == <<w>>

level_tabs(indent) ==
    IF indent.tag = "TopLevel" THEN 0
    ELSE IF indent.tag = "Tabs" THEN indent.level
    ELSE Unreachable

\* level_spaces that forgets the width
level_spaces_unscaled(indent) ==
    IF indent.tag = "TopLevel" THEN 0
    ELSE IF indent.tag = "Tabs" THEN Unreachable
    ELSE indent.level

level_spaces(indent) ==
    IF indent.tag = "TopLevel" THEN 0
    ELSE IF indent.tag = "Tabs" THEN Unreachable
    ELSE indent.width * indent.level

width(indent) ==
    IF indent.tag = "TopLevel" THEN NoWidth
    ELSE IF indent.tag = "Tabs" THEN Some(Unreachable)
    ELSE Some(indent.width)

\* Option::unwrap_or
unwrap_or(opt, default) == IF opt = NoWidth THEN default ELSE opt[1]

increase_tabs(indent) ==
    IF indent.tag = "TopLevel" THEN IndentTabs(1)
    ELSE IF indent.tag = "Tabs" THEN IndentTabs(indent.level + 1)
    ELSE IndentSpaces(indent.width, indent.level + 1)

\* increase_spaces that takes one space per level whatever the first indented line has
increase_spaces_unit_width(indent, w) ==
    IF indent.tag = "TopLevel" THEN IndentSpaces(1, 1)
    ELSE IF indent.tag = "Tabs" THEN IndentTabs(indent.level + 1)
    ELSE IndentSpaces(indent.width, indent.level + 1)

increase_spaces(indent, w) ==
    IF indent.tag = "TopLevel" THEN IndentSpaces(w, 1)
    ELSE IF indent.tag = "Tabs" THEN IndentTabs(indent.level + 1)
    ELSE IndentSpaces(indent.width, indent.level + 1)

\* the Indent a build without overflow checks goes on with: level + 1 in u8
u8_indent(indent) == [indent EXCEPT !.level = wrapping(@)]

ParseOk(s, node) == [status |-> "ok", sc |-> s, config |-> node, err |-> None]
\* Err(e) or a panic: no tree comes back
ParseFail(status, s, e) == [status |-> status, sc |-> s, config |-> None, err |-> e]

consume(s, kind, n) ==
    LET r == next_token(s)
    IN  IF r.status # "ok" THEN r
        ELSE IF r.tok.kind = kind /\ r.tok.n = n THEN r
        ELSE [status |-> "err", sc |-> r.sc, tok |-> None, err |-> "UnexpectedToken"]

RECURSIVE parse_kv(_, _, _)
RECURSIVE descend(_, _, _, _)

\* the loop goes on with the node the child was added to: parse_kv(..)?;
descend_parsed(r, kind, next_indent) ==
    IF r.status # "ok" THEN r ELSE descend(r.sc, kind, next_indent, r.config)

\* consume(scanner, kind).unwrap(); parse_kv(scanner, next_indent, &mut node)?;
descend_consumed(c, kind, next_indent, node) ==
    IF c.status # "ok" THEN ParseFail("panic", c.sc, "unwrap")
    ELSE descend_parsed(parse_kv(c.sc, next_indent, node), kind, next_indent)

\* while scanner.peek_token(0)?.kind == kind(expected) { .. }
descend_peeked(p, expected, kind, next_indent, node) ==
    IF p.status # "ok" THEN ParseFail(p.status, p.sc, p.err)
    ELSE IF p.tok.kind = kind /\ p.tok.n = expected
    THEN descend_consumed(consume(p.sc, kind, expected), kind, next_indent, node)
    ELSE ParseOk(p.sc, node)

\* the two while loops of parse_kv: while the next token is the indentation of
\* next_indent, consume it and parse one child of node
descend(s, kind, next_indent, node) ==
    descend_peeked(peek_token(s, 0),
                   IF kind = "Tabs" THEN level_tabs(next_indent)
                   ELSE wrapping(level_spaces(next_indent)),
                   kind, next_indent, node)

\* parent.add_child(node); Ok(())
parse_kv_add(children, parent) ==
    IF children.status # "ok" THEN children
    ELSE ParseOk(children.sc, add_child(parent, children.config))

\* TokenKind::Tabs(tabs) => ..
parse_kv_tabs(p, next_indent, node) ==
    IF overflows(next_indent.level) /\ p.sc.overflow_checks
    THEN ParseFail("panic", p.sc, "overflow")
    ELSE IF level_tabs(u8_indent(next_indent)) = Unreachable
    THEN ParseFail("panic", p.sc, "unreachable")
    ELSE IF p.tok.n = level_tabs(u8_indent(next_indent))
    THEN descend(p.sc, "Tabs", u8_indent(next_indent), node)
    ELSE ParseOk(p.sc, node)

\* TokenKind::Spaces(spaces) if matches!(indent, Spaces | TopLevel) => ..
parse_kv_spaces(p, next_indent, node) ==
    IF (overflows(next_indent.level) \/ overflows(level_spaces(u8_indent(next_indent))))
       /\ p.sc.overflow_checks
    THEN ParseFail("panic", p.sc, "overflow")
    ELSE IF p.tok.n = wrapping(level_spaces(u8_indent(next_indent)))
    THEN descend(p.sc, "Spaces", u8_indent(next_indent), node)
    ELSE ParseOk(p.sc, node)

\* match scanner.peek_token(0)?.kind { .. }
parse_kv_peeked(p, indent, node, parent) ==
    IF p.status # "ok" THEN ParseFail(p.status, p.sc, p.err)
    ELSE IF p.tok.kind = "Tabs"
    THEN parse_kv_add(parse_kv_tabs(p, increase_tabs(indent), node), parent)
    ELSE IF p.tok.kind = "Spaces" /\ indent.tag \in {"Spaces", "TopLevel"}
    THEN parse_kv_add(
             parse_kv_spaces(p, increase_spaces(indent, unwrap_or(width(indent), p.tok.n)),
                             node),
             parent)
    ELSE parse_kv_add(ParseOk(p.sc, node), parent)

\* let value = consume(scanner, Value)?.lexeme; let mut node = the child of
\* that key cloned, or a new node
parse_kv_consumed(c, indent, parent) ==
    IF c.status # "ok" THEN ParseFail(c.status, c.sc, c.err)
    ELSE parse_kv_peeked(peek_token(c.sc, 0), indent,
                         IF has_value(parent, c.tok.lexeme) THEN Index(parent, c.tok.lexeme)
                         ELSE ConfigNew(c.tok.lexeme),
                         parent)

\* parse_kv: the config of an ok result is the parent with the node added
parse_kv(s, indent, parent) == parse_kv_consumed(consume(s, "Value", 0), indent, parent)

RECURSIVE parse_with_loop(_, _)

\* parse_kv(scanner, Indent::TopLevel, &mut config)?;
parse_with_parsed(r) == [done |-> r.status # "ok", r |-> r]

parse_with_peeked(p, cfg) ==
    IF p.status # "ok" THEN [done |-> TRUE, r |-> ParseFail(p.status, p.sc, p.err)]
    ELSE IF p.tok.kind = "EOF" THEN [done |-> TRUE, r |-> ParseOk(p.sc, cfg)]
    ELSE parse_with_parsed(parse_kv(p.sc, TopLevel, cfg))

\* one turn of: while scanner.peek_token(0)?.kind != EOF { parse_kv(..)?; }
parse_with_step(s, cfg) == parse_with_peeked(peek_token(s, 0), cfg)

parse_with_turn(st) == IF st.done THEN st.r ELSE parse_with_loop(st.r.sc, st.r.config)

parse_with_loop(s, cfg) == parse_with_turn(parse_with_step(s, cfg))

\* a loop that starts from an empty tree instead of the seed
parse_with_clone_fresh(orig) == ConfigNew(orig.key)

\* the tree the loop of a call works on: a clone of the seed
parse_with_clone(orig) == orig

\* a loop that works on the seed itself
original_after_shared(orig, working) == working

\* the seed after a call has worked on its tree: the seed is borrowed
\* immutably, the tree worked on is the clone
original_after(orig, working) == orig

parse_with(s, orig) == parse_with_loop(s, parse_with_clone(orig))

parse(s) == parse_with(s, ConfigNew(TOP_LEVEL_KEY))

parse_config(text) == parse(ScannerNew(text))

parse_config_with(cfg, text) == parse_with(ScannerNew(text), cfg)

(***************************************************************************)
(* A caller driving one scanner call by call                               *)
(***************************************************************************)
ScanAlphabet == {"a", NL, SP, TAB, HASH, DQ}

ScanSources == SeqsUpTo(ScanAlphabet, MaxLen)

NoCall == [op |-> "none", idx |-> 0, status |-> "ok", tok |-> None]

InitScan ==
    /\ scanner \in {ScannerNew(src) : src \in ScanSources}
    /\ ret = NoCall
    /\ calls = 0
    /\ eofSeen = FALSE
    /\ doc = None
    /\ content = <<>>
    /\ original = None
    /\ pair = None
    /\ config = None
    /\ out = None
    /\ pc = "scan"

IsEof(r) == r.status = "ok" /\ r.tok.kind = "EOF"

\* a panic ends the caller: no call follows it
CanCall == pc = "scan" /\ calls < MaxCalls /\ ret.status # "panic"

NextToken ==
    /\ CanCall
    /\ LET r == next_token(scanner)
       IN  /\ scanner' = r.sc
           /\ ret' = [op |-> "next", idx |-> 0, status |-> r.status, tok |-> r.tok]
           /\ eofSeen' = (eofSeen \/ IsEof(r))
    /\ calls' = calls + 1
    /\ UNCHANGED <<pair, doc, content, original, config, out, pc>>

PeekToken ==
    /\ CanCall
    /\ \E idx \in 0..MaxPeek :
         LET r == peek_token(scanner, idx)
         IN  /\ scanner' = r.sc
             /\ ret' = [op |-> "peek", idx |-> idx, status |-> r.status, tok |-> r.tok]
             /\ eofSeen' = eofSeen
    /\ calls' = calls + 1
    /\ UNCHANGED <<pair, doc, content, original, config, out, pc>>

NextScan == NextToken \/ PeekToken

SpecScan == InitScan /\ [][NextScan]_vars

(***************************************************************************)
(* Scanning a whole text, and the same text with one more line             *)
(* (SpecTokens)                                                            *)
(***************************************************************************)
TextAlphabet == {"a", NL, SP, TAB, HASH, DQ}

TokenSources == SeqsUpTo(TextAlphabet, MaxLen)

\* runs of one whitespace character, as long as MaxIndent
IndentRuns == {[i \in 1..n |-> c] : n \in 0..MaxIndent, c \in {SP, TAB}}

\* a line that is only indentation, or indentation and a comment
BlankLines == IndentRuns \cup {r \o <<HASH>> : r \in IndentRuns}
                         \cup {r \o <<HASH, "a">> : r \in IndentRuns}

\* p is the start of a line of text
IsLineStart(text, p) == p = 0 \/ text[p] = NL

\* the ways to add one blank line b to text: before any line, or as the last
\* line, with or without a line terminator of its own
Edits(text) ==
    {[at |-> p, ins |-> b \o <<NL>>] :
        p \in {q \in 0..Len(text) : IsLineStart(text, q)}, b \in BlankLines}
    \cup {[at |-> Len(text), ins |-> b] :
        b \in {c \in BlankLines : c # <<>> /\ IsLineStart(text, Len(text))}}
    \cup {[at |-> Len(text), ins |-> <<NL>> \o b] :
        b \in {c \in BlankLines : ~IsLineStart(text, Len(text))}}

Edited(text, e) == SubSeq(text, 1, e.at) \o e.ins \o SubSeq(text, e.at + 1, Len(text))

\* kinds and lexemes of the tokens of a scan_all result, without positions
TokenView(r) ==
    [status |-> r.status,
     tokens |-> [i \in 1..Len(r.tokens) |->
                    [kind |-> r.tokens[i].kind, n |-> r.tokens[i].n,
                     lexeme |-> r.tokens[i].lexeme]]]

InitTokens ==
    /\ content \in TokenSources
    /\ doc \in Edits(content)
    /\ out = [orig |-> None, edited |-> None]
    /\ pc = "start"
    /\ scanner = None
    /\ ret = None
    /\ calls = 0
    /\ eofSeen = FALSE
    /\ original = None
    /\ pair = None
    /\ config = None

ScanAll ==
    /\ pc = "start"
    /\ out' = [out EXCEPT !.orig = TokenView(scan_all(ScannerNew(content)))]
    /\ pc' = "scanned"
    /\ UNCHANGED <<pair, scanner, ret, calls, eofSeen, doc, content, original, config>>

ScanEdited ==
    /\ pc = "scanned"
    /\ out' = [out EXCEPT !.edited = TokenView(scan_all(ScannerNew(Edited(content, doc))))]
    /\ pc' = "done"
    /\ UNCHANGED <<pair, scanner, ret, calls, eofSeen, doc, content, original, config>>

NextTokens == ScanAll \/ ScanEdited

SpecTokens == InitTokens /\ [][NextTokens]_vars

(***************************************************************************)
(* Claims about the tokens of a text (SpecTokens)                          *)
(***************************************************************************)
RECURSIVE SplitLines(_, _)
\* the lines of text, without their terminators; cur is the line being read
SplitLines(text, cur) ==
    IF text = <<>> THEN (IF cur = <<>> THEN <<>> ELSE <<cur>>)
    ELSE IF Head(text) = NL \/ Head(text) = CR THEN <<cur>> \o SplitLines(Tail(text), <<>>)
    ELSE SplitLines(Tail(text), Append(cur, Head(text)))

RECURSIVE StripRun(_, _)
StripRun(line, c) == IF line # <<>> /\ Head(line) = c THEN StripRun(Tail(line), c) ELSE line

\* a line without its indentation, the run of tabs or of spaces it starts with
LineRest(line) ==
    IF line # <<>> /\ Head(line) \in {SP, TAB} THEN StripRun(line, Head(line)) ELSE line

StartsQuoted(line) == LineRest(line) # <<>> /\ Head(LineRest(line)) \in {DQ, SQ}

\* the first character after the indentation is neither a quote nor '#'
IsValueLine(line) == LineRest(line) # <<>> /\ Head(LineRest(line)) \notin {DQ, SQ, HASH}

NoQuotedLine(text) ==
    \A i \in 1..Len(SplitLines(text, <<>>)) : ~StartsQuoted(SplitLines(text, <<>>)[i])

\* what the value lines of text hold after their indentation, in order
ValueLineRests(text) ==
    LET lines == SplitLines(text, <<>>)
        IsV(l) == IsValueLine(l)
        sel == SelectSeq(lines, IsV)
    IN  [i \in 1..Len(sel) |-> LineRest(sel[i])]

\* the non-empty lexemes of the Value tokens, in order
ValueLexemes(toks) ==
    LET IsV(t) == t.kind = "Value" /\ t.lexeme # <<>>
        sel == SelectSeq(toks, IsV)
    IN  [i \in 1..Len(sel) |-> sel[i].lexeme]

\* C6: inline '#' is literal in unquoted values: every line whose first
\* character after the indentation is neither a quote nor '#' gives one Value
\* token whose lexeme is the rest of the line up to its terminator, '#'
\* characters and trailing whitespace included.
C6_InlineHashLiteral ==
    pc # "start" /\ NoQuotedLine(content) =>
        /\ out.orig.status = "ok"
        /\ ValueLexemes(out.orig.tokens) = ValueLineRests(content)

\* a value with an inline '#' and trailing whitespace was scanned
C6_Witness ==
    /\ pc # "start"
    /\ content = <<SP, "a", HASH, SP>>
    /\ out.orig.tokens[2].lexeme = <<"a", HASH, SP>>

\* C7: comment-only and blank lines are invisible: adding a line that is only
\* indentation, or indentation and a '#' comment, does not change the tokens
\* (kinds and lexemes) the scanner produces.
C7_BlankLinesInvisible ==
    pc = "done" /\ NoQuotedLine(content) => out.edited = out.orig

(***************************************************************************)
(* Parsing a text, printing the tree and parsing the print (SpecText)      *)
(***************************************************************************)
TextSources == SeqsUpTo(TextAlphabet, MaxLen)

\* what parse_config / parse_config_with hand back, and how far the scanner got
Outcome(r) ==
    [status |-> r.status, config |-> r.config, err |-> r.err, consumed |-> r.sc.current]

InitText ==
    /\ content \in TextSources
    /\ doc = None
    /\ config = None
    /\ out = None
    /\ pc = "start"
    /\ scanner = None
    /\ ret = None
    /\ calls = 0
    /\ eofSeen = FALSE
    /\ original = None
    /\ pair = None

ParseConfig ==
    /\ pc = "start"
    /\ config' = Outcome(parse_config(content))
    /\ pc' = "parsed"
    /\ UNCHANGED <<pair, scanner, ret, calls, eofSeen, doc, content, original, out>>

\* config.to_string(), the Config of config.rs
CallToString ==
    /\ pc = "parsed"
    /\ config.status = "ok"
    /\ out' = [via |-> "to_string", text |-> to_string(config.config), config |-> None]
    /\ pc' = "printed"
    /\ UNCHANGED <<pair, scanner, ret, calls, eofSeen, doc, content, original, config>>

\* config.pretty_print(), the Config of pair.rs
CallPrettyPrint ==
    /\ pc = "parsed"
    /\ config.status = "ok"
    /\ out' = [via |-> "pretty_print", text |-> pretty_print(config.config), config |-> None]
    /\ pc' = "printed"
    /\ UNCHANGED <<pair, scanner, ret, calls, eofSeen, doc, content, original, config>>

Reparse ==
    /\ pc = "printed"
    /\ out' = [out EXCEPT !.config = Outcome(parse_config(out.text))]
    /\ pc' = "reparsed"
    /\ UNCHANGED <<pair, scanner, ret, calls, eofSeen, doc, content, original, config>>

NextText == ParseConfig \/ CallToString \/ CallPrettyPrint \/ Reparse

SpecText == InitText /\ [][NextText]_vars

(***************************************************************************)
(* Claims about parsing a text (SpecText)                                  *)
(***************************************************************************)
\* the scan of the whole text, for the place of its first error
WholeScan(text) == scan_all(ScannerNew(text))

\* the error is the first one, and nothing was read past it
FirstErrorOnly(text, o) ==
    LET sa == WholeScan(text)
    IN  IF sa.status = "ok" THEN o.err = "UnexpectedToken"
        ELSE /\ o.consumed <= sa.sc.current
             /\ o.err # "UnexpectedToken" => o.err = sa.err /\ o.consumed = sa.sc.current

\* C4: fail-fast: every parse ends in a tree for the whole text or in one
\* error, the first one met, with no input read past it.
C4_FailFast ==
    pc # "start" =>
        /\ config.status \in {"ok", "err"}
        /\ config.status = "ok" => WholeScan(content).status = "ok"
        /\ config.status = "err" => FirstErrorOnly(content, config)

\* C5: round trip: parsing the text to_string gives for a parsed tree
\* succeeds and gives a tree equal to it.
C5_RoundTrip ==
    pc = "reparsed" /\ out.via = "to_string" =>
        out.config.status = "ok" /\ out.config.config = config.config

(***************************************************************************)
(* Documents: lines of a key at a depth, each top-level key with its own   *)
(* indentation style (SpecParse)                                           *)
(***************************************************************************)
Keys == {<<"a">>, <<"b">>}

Line(depth, key) == [depth |-> depth, key |-> key]

RECURSIVE DocsOfLen(_)
\* the documents of n lines: the first line is at depth 0, every other line at
\* most one level deeper than the line before it
DocsOfLen(n) ==
    IF n = 0 THEN {<<>>}
    ELSE IF n = 1 THEN {<<Line(0, k)>> : k \in Keys}
    ELSE UNION {{Append(d, Line(depth, k)) : depth \in 0..(d[n - 1].depth + 1), k \in Keys} :
                d \in DocsOfLen(n - 1)}

DocsUpTo(n) == UNION {DocsOfLen(m) : m \in 0..n}

Styles == {[c |-> TAB, w |-> 1]} \cup {[c |-> SP, w |-> w] : w \in 1..MaxWidth}

TopKeys(lines) == {lines[i].key : i \in {j \in 1..Len(lines) : lines[j].depth = 0}}

\* the top-level line that opens the block line i is in
BlockStart(lines, i) == CHOOSE j \in 1..i :
    lines[j].depth = 0 /\ \A m \in (j + 1)..i : lines[m].depth # 0

RECURSIVE RenderFrom(_, _, _)
\* the text of lines i.. of a document
RenderFrom(lines, styles, i) ==
    IF i > Len(lines) THEN <<>>
    ELSE LET st == styles[lines[BlockStart(lines, i)].key]
         IN  Repeat(<<st.c>>, st.w * lines[i].depth) \o lines[i].key \o <<NL>>
                 \o RenderFrom(lines, styles, i + 1)

Render(d) == RenderFrom(d.lines, d.styles, 1)

\* the top-level lines of a document
BlockStarts(lines) == {j \in 1..Len(lines) : lines[j].depth = 0}

\* the lines of the block that starts at line j
BlockLines(lines, j) ==
    LET rest == {m \in (j + 1)..Len(lines) : lines[m].depth = 0}
        last == IF rest = {} THEN Len(lines)
                ELSE (CHOOSE m \in rest : \A o \in rest : m <= o) - 1
    IN  SubSeq(lines, j, last)

StyledDocs(n) ==
    {[lines |-> l, styles |-> st] : l \in DocsUpTo(n), st \in [Keys -> Styles]}

InitParse ==
    /\ doc \in {d \in StyledDocs(MaxLines) :
                   \A k \in Keys \ TopKeys(d.lines) : d.styles[k] = [c |-> TAB, w |-> 1]}
    /\ content = Render(doc)
    /\ config = None
    /\ out = None
    /\ pc = "start"
    /\ scanner = None
    /\ ret = None
    /\ calls = 0
    /\ eofSeen = FALSE
    /\ original = None
    /\ pair = None

\* each block of the document parsed by itself
ParseBlocks ==
    /\ pc = "parsed"
    /\ out' = [j \in BlockStarts(doc.lines) |->
                  Outcome(parse_config(
                      RenderFrom(BlockLines(doc.lines, j), doc.styles, 1)))]
    /\ pc' = "blocks"
    /\ UNCHANGED <<pair, scanner, ret, calls, eofSeen, doc, content, original, config>>

NextParse == ParseConfig \/ ParseBlocks

SpecParse == InitParse /\ [][NextParse]_vars

(***************************************************************************)
(* Claims about parsing a document (SpecParse)                             *)
(***************************************************************************)
\* the line a line at depth > 0 is under: the nearest line before it that is
\* one level up
ParentLine(lines, i) == CHOOSE j \in 1..(i - 1) :
    /\ lines[j].depth = lines[i].depth - 1
    /\ \A m \in (j + 1)..(i - 1) : lines[m].depth # lines[i].depth - 1

RECURSIVE PathOf(_, _)
\* the keys from the top level down to line i
PathOf(lines, i) ==
    IF lines[i].depth = 0 THEN <<lines[i].key>>
    ELSE Append(PathOf(lines, ParentLine(lines, i)), lines[i].key)

RefNode(key) == [key |-> key, quotes |-> None, value |-> <<>>]

RECURSIVE InsertPath(_, _)
\* a tree with a path added: a key that is there already is gone into, a new
\* key is put after its siblings
InsertPath(node, path) ==
    IF path = <<>> THEN node
    ELSE IF \E i \in 1..Len(node.value) : node.value[i].key = Head(path)
    THEN LET i == CHOOSE j \in 1..Len(node.value) : node.value[j].key = Head(path)
         IN  [node EXCEPT !.value[i] = InsertPath(@, Tail(path))]
    ELSE [node EXCEPT !.value = Append(@, InsertPath(RefNode(Head(path)), Tail(path)))]

RECURSIVE MergedFrom(_, _, _)
MergedFrom(node, lines, i) ==
    IF i > Len(lines) THEN node
    ELSE MergedFrom(InsertPath(node, PathOf(lines, i)), lines, i + 1)

\* the tree of a document: every path once, siblings in the order they first appear
MergedTree(lines) == MergedFrom(RefNode(TOP_LEVEL_KEY), lines, 1)

\* C1: duplicate-key accumulation: a key met again under the same parent, at
\* any depth, stays one child, and its children are those of all its
\* occurrences, each key once, in the order they first appear.
C1_DuplicateKeysMerge ==
    pc # "start" => config.status = "ok" /\ config.config = MergedTree(doc.lines)

\* a{a}, a{a, b}: a has the two children a, b
C1_Witness ==
    /\ pc # "start"
    /\ doc.lines = <<Line(0, <<"a">>), Line(1, <<"a">>), Line(0, <<"a">>),
                     Line(1, <<"a">>), Line(1, <<"b">>)>>
    /\ Len(config.config.value) = 1
    /\ values(config.config.value[1]) = <<<<"a">>, <<"b">>>>

DistinctTopKeys(lines) ==
    \A i, j \in BlockStarts(lines) : lines[i].key = lines[j].key => i = j

\* C8: indentation style is inferred per top-level block: with pairwise
\* distinct top-level keys and every block indented in its own style, the
\* parse succeeds and the subtree of each top-level key is the one the block
\* gives when parsed alone.
C8_StylePerBlock ==
    pc = "blocks" /\ DistinctTopKeys(doc.lines) =>
        /\ config.status = "ok"
        /\ \A j \in BlockStarts(doc.lines) :
               /\ out[j].status = "ok"
               /\ has_value(config.config, doc.lines[j].key)
               /\ Index(config.config, doc.lines[j].key)
                      = Index(out[j].config, doc.lines[j].key)

\* a tab-indented block and a block indented by two spaces, each two levels deep
C8_Witness ==
    /\ pc = "blocks"
    /\ DistinctTopKeys(doc.lines)
    /\ Cardinality(BlockStarts(doc.lines)) = 2
    /\ doc.styles[<<"a">>] = [c |-> TAB, w |-> 1]
    /\ doc.styles[<<"b">>] = [c |-> SP, w |-> 2]
    /\ \E i \in 1..Len(doc.lines) : PathOf(doc.lines, i)[1] = <<"a">> /\ doc.lines[i].depth = 1
    /\ \E i \in 1..Len(doc.lines) : PathOf(doc.lines, i)[1] = <<"b">> /\ doc.lines[i].depth = 2

(***************************************************************************)
(* parse_config_with on a seed tree (SpecInherit)                          *)
(***************************************************************************)
SeedTrees == {parse_config(RenderFrom(l, [k \in Keys |-> [c |-> TAB, w |-> 1]], 1)).config :
                 l \in DocsUpTo(MaxSeedLines)}

InitInherit ==
    /\ original \in SeedTrees
    /\ pair = None
    /\ doc \in {[lines |-> l, styles |-> [k \in Keys |-> st]] :
                   l \in DocsUpTo(MaxOverlayLines), st \in Styles}
    /\ content = Render(doc)
    /\ config = None
    /\ out = None
    /\ pc = "start"
    /\ scanner = None
    /\ ret = None
    /\ calls = 0
    /\ eofSeen = FALSE

\* parse_config_with(&original, content)
ParseConfigWith ==
    /\ pc = "start"
    /\ LET r == parse_config_with(original, content)
       IN  /\ config' = Outcome(r)
           /\ original' = IF r.status = "ok" THEN original_after(original, r.config)
                          ELSE original
    /\ pc' = "parsed"
    /\ UNCHANGED <<pair, scanner, ret, calls, eofSeen, doc, content, out>>

\* the values of the seed's top-level keys, read from the result
ReadValues ==
    /\ pc = "parsed"
    /\ config.status = "ok"
    /\ out' = [i \in 1..Len(original.value) |-> values(Index(config.config, original.value[i].key))]
    /\ pc' = "read"
    /\ UNCHANGED <<pair, scanner, ret, calls, eofSeen, doc, content, original, config>>

NextInherit == ParseConfigWith \/ ReadValues

SpecInherit == InitInherit /\ [][NextInherit]_vars

RECURSIVE Extends(_, _)
\* r has the node s, and under it the children of s first, in the order of s,
\* each of them extended in the same way
Extends(s, r) ==
    /\ s.key = r.key
    /\ s.quotes = r.quotes
    /\ Len(s.value) <= Len(r.value)
    /\ \A i \in 1..Len(s.value) : Extends(s.value[i], r.value[i])

RECURSIVE HasPath(_, _)
HasPath(node, path) ==
    \/ path = <<>>
    \/ \E i \in 1..Len(node.value) :
           node.value[i].key = Head(path) /\ HasPath(node.value[i], Tail(path))

\* C2: inheritance precedence: in the result of a successful parse_with every
\* node of the seed is at its path with the seed's children first, in the
\* seed's order; the keys of the text are there as well, after them; the
\* values read under the seed's keys begin with the seed's.
C2_SeedFirst ==
    /\ pc # "start" /\ config.status = "ok" =>
           /\ Extends(original, config.config)
           /\ \A i \in 1..Len(doc.lines) : HasPath(config.config, PathOf(doc.lines, i))
    /\ pc = "read" =>
           \A i \in 1..Len(original.value) : IsPrefix(values(original.value[i]), out[i])

\* seed a{b}, text a{a, b}: a has the children b, a
C2_Witness ==
    /\ pc = "read"
    /\ values(original) = <<<<"a">>>>
    /\ values(original.value[1]) = <<<<"b">>>>
    /\ doc.lines = <<Line(0, <<"a">>), Line(1, <<"a">>), Line(1, <<"b">>)>>
    /\ out[1] = <<<<"b">>, <<"a">>>>

(***************************************************************************)
(* Two parse_with calls on one seed, step by step (SpecShared)             *)
(***************************************************************************)
SharedLines == {<<"a", NL>>, <<"b", NL>>, <<TAB, "b", NL>>}

RECURSIVE Flatten(_)
Flatten(ls) == IF ls = <<>> THEN <<>> ELSE Head(ls) \o Flatten(Tail(ls))

SharedTexts == {Flatten(ls) : ls \in SeqsUpTo(SharedLines, MaxShared)}

SharedSeeds == {parse_config(t).config : t \in {<<>>, <<"a", NL>>, <<"a", NL, TAB, "b", NL>>}}

Callers == {"first", "second"}

NotRun == [status |-> "none"]

InitShared ==
    /\ original \in SharedSeeds
    /\ pair = None
    /\ doc = [seed |-> original]
    /\ content \in [Callers -> SharedTexts]
    /\ pc = [c \in Callers |-> "start"]
    /\ config = [c \in Callers |-> original]
    /\ scanner = [c \in Callers |-> ScannerNew(content[c])]
    /\ out = [c \in Callers |-> NotRun]
    /\ ret = None
    /\ calls = 0
    /\ eofSeen = FALSE

\* let mut config = original.clone();
Clone(c) ==
    /\ pc[c] = "start"
    /\ config' = [config EXCEPT ![c] = parse_with_clone(original)]
    /\ pc' = [pc EXCEPT ![c] = "loop"]
    /\ UNCHANGED <<pair, scanner, ret, calls, eofSeen, doc, content, original, out>>

\* the tree of caller c after a turn: the turn's tree, or on an error the tree as it was
Working(c, st) == IF st.r.status = "ok" THEN st.r.config ELSE config[c]

Stepped(c, st) ==
    /\ scanner' = [scanner EXCEPT ![c] = st.r.sc]
    /\ config' = [config EXCEPT ![c] = Working(c, st)]
    /\ original' = original_after(original, Working(c, st))
    /\ out' = IF st.done THEN [out EXCEPT ![c] = Outcome(st.r)] ELSE out
    /\ pc' = [pc EXCEPT ![c] = IF st.done THEN "done" ELSE "loop"]

\* one turn of the loop, or the return
Step(c) ==
    /\ pc[c] = "loop"
    /\ Stepped(c, parse_with_step(scanner[c], config[c]))
    /\ UNCHANGED <<pair, ret, calls, eofSeen, doc, content>>

NextShared == \E c \in Callers : Clone(c) \/ Step(c)

SpecShared == InitShared /\ [][NextShared]_vars

RECURSIVE KeysOf(_)
KeysOf(node) == {node.key} \cup UNION {KeysOf(node.value[i]) : i \in 1..Len(node.value)}

Alone(seed, text) == Outcome(parse_config_with(seed, text))

\* C3: parse_with never changes the seed, whether it succeeds or fails; two
\* calls on one seed, interleaved in any way, each return what the call gives
\* when run alone, with no key that neither its text nor the seed has.
C3_SeedUntouched ==
    /\ original = doc.seed
    /\ \A c \in Callers : pc[c] = "done" =>
           /\ out[c].status = Alone(doc.seed, content[c]).status
           /\ out[c] = Alone(doc.seed, content[c])
           /\ out[c].status = "ok" =>
                  KeysOf(out[c].config) \subseteq
                      KeysOf(doc.seed) \cup KeysOf(Alone(ConfigNew(TOP_LEVEL_KEY), content[c]).config)

\* both calls done on a seed with a child, one with a key the other does not have
C3_Witness ==
    /\ pc = [c \in Callers |-> "done"]
    /\ doc.seed.value # <<>>
    /\ out["first"].status = "ok"
    /\ <<"b">> \in KeysOf(out["first"].config)
    /\ out["second"].status = "ok"
    /\ <<"b">> \notin KeysOf(out["second"].config)
    /\ <<"a">> \in KeysOf(out["second"].config)

(***************************************************************************)
(* Claims about the scanner driven call by call (SpecScan)                 *)
(***************************************************************************)

RECURSIVE Stream(_, _)
\* the tokens the next n next_token calls return, from scanner state s
Stream(s, n) ==
    IF n = 0 THEN <<>>
    ELSE LET r == next_token(s)
         IN  IF r.status = "panic" THEN <<>>
             ELSE IF r.status = "err" THEN Stream(r.sc, n - 1)
             ELSE <<r.tok>> \o Stream(r.sc, n - 1)

\* how far ahead the claims look
Ahead == MaxPeek + 3

PeekStep == ret'.op = "peek" /\ calls' = calls + 1
NextStep == ret'.op = "next" /\ calls' = calls + 1

\* a peek_token call leaves the tokens that later next_token calls return as they were
PeekKeepsStream ==
    PeekStep /\ ret'.status # "panic" =>
        IsPrefix(Stream(scanner, Ahead), Stream(scanner', Ahead))

\* peek_token(k) returns the token the (k + 1)-th following next_token call returns
PeekIsKthNext ==
    PeekStep /\ ret'.status = "ok" =>
        /\ Len(Stream(scanner', ret'.idx + 1)) = ret'.idx + 1
        /\ Stream(scanner', ret'.idx + 1)[ret'.idx + 1] = ret'.tok

\* two peek_token(k) calls with no next_token between them return the same token
PeekTwice ==
    PeekStep /\ ret.op = "peek" /\ ret.status = "ok" /\ ret'.idx = ret.idx =>
        ret'.status = "ok" /\ ret'.tok = ret.tok

\* next_token returns the token the peek_token(0) right before it returned
NextAfterPeek ==
    NextStep /\ ret.op = "peek" /\ ret.status = "ok" /\ ret.idx = 0 =>
        ret'.status = "ok" /\ ret'.tok = ret.tok

\* C9: peek is idempotent and non-consuming: a peek_token(k) call does not
\* change the tokens later next_token calls return, two peek_token(k) calls in
\* a row return the same token, peek_token(k) returns the token of the
\* (k+1)-th following next_token call, and next_token returns what the
\* peek_token(0) before it returned.
C9_PeekNonConsuming ==
    [][PeekKeepsStream /\ PeekIsKthNext /\ PeekTwice /\ NextAfterPeek]_vars

\* a token was peeked at index 1, peeked again, and then reached by next_token
C9_Witness ==
    /\ ret.op = "peek" /\ ret.idx = 1 /\ ret.status = "ok" /\ ret.tok.kind = "Value"
    /\ Len(scanner.tokens) >= 2
    /\ calls >= 2

\* C10: Eof is terminal: once next_token has returned the EOF token, every
\* later next_token and peek_token call returns the EOF token again.
C10_EofTerminal ==
    [][eofSeen /\ calls' = calls + 1 => ret'.status = "ok" /\ ret'.tok.kind = "EOF"]_vars

(***************************************************************************)
(* Pair, the tree of the old interface (src/src/pair.rs)                   *)
(***************************************************************************)
PairNew(key) == [key |-> key, value |-> <<>>]

\* Pair::add
add(p, v) == [p EXCEPT !.value = Append(@, PairNew(v))]

has_key(p, k) == \E i \in 1..Len(p.value) : p.value[i].key = k

\* the first item with the key: for item in &self.value { if item.key == v { return Ok(item) } }
FirstWithKey(p, k) ==
    CHOOSE i \in 1..Len(p.value) :
        p.value[i].key = k /\ \A j \in 1..(i - 1) : p.value[j].key # k

Found(node) == [status |-> "ok", node |-> node]
KeyNotFound == [status |-> "err", err |-> "KeyNotFound"]
LookupPanic == [status |-> "panic"]

\* Pair::get
get(p, k) ==
    IF p.value = <<>> THEN KeyNotFound
    ELSE IF has_key(p, k) THEN Found(p.value[FirstWithKey(p, k)])
    ELSE KeyNotFound

\* Pair::get_ref
get_ref(p, k) ==
    IF p.value = <<>> THEN Found(p)
    ELSE IF has_key(p, k) THEN Found(p.value[FirstWithKey(p, k)])
    ELSE KeyNotFound

\* impl Index for Pair: self.get_ref(i).unwrap()
pair_index(p, k) == IF get_ref(p, k).status = "ok" THEN get_ref(p, k) ELSE LookupPanic

\* Pair::add_pair
add_pair(p, c) ==
    IF ~has_key(p, c.key) THEN [p EXCEPT !.value = Append(@, c)]
    ELSE [p EXCEPT !.value[FirstWithKey(p, c.key)].value = c.value]

\* impl Index<&str> for Config: &self.value[index], which panics on a key that is not there
config_index(node, key) == IF has_value(node, key) THEN Found(Index(node, key)) ELSE LookupPanic

(***************************************************************************)
(* Trees changed and read through their own operations (SpecTree)          *)
(***************************************************************************)
\* the child sequences over a set of nodes, no key twice
ChildSeqs(S) ==
    {<<>>} \cup {<<x>> : x \in S} \cup {<<xy[1], xy[2]>> : xy \in {t \in S \X S : t[1].key # t[2].key}}

RECURSIVE NodesOfDepth(_)
\* the nodes with the keys of Keys and at most d levels below them
NodesOfDepth(d) ==
    IF d = 0 THEN {ConfigNew(k) : k \in Keys}
    ELSE {[ConfigNew(k) EXCEPT !.value = cs] : k \in Keys, cs \in ChildSeqs(NodesOfDepth(d - 1))}

TreeNodes == NodesOfDepth(MaxTreeDepth)

TreeRoots == {[ConfigNew(TOP_LEVEL_KEY) EXCEPT !.value = cs] : cs \in ChildSeqs(TreeNodes)}

RECURSIVE PairOf(_)
\* the Pair with the keys and children of a Config
PairOf(node) == [key |-> node.key, value |-> [i \in 1..Len(node.value) |-> PairOf(node.value[i])]]

InitTree ==
    /\ config \in TreeRoots
    /\ pair = PairOf(config)
    /\ out = [op |-> "none"]
    /\ pc = "start"
    /\ scanner = None
    /\ ret = None
    /\ calls = 0
    /\ eofSeen = FALSE
    /\ doc = None
    /\ content = None
    /\ original = None

\* config.add_child(c)
AddChild ==
    /\ pc = "start"
    /\ \E c \in TreeNodes :
           /\ config' = add_child(config, c)
           /\ out' = [op |-> "add_child", key |-> c.key]
    /\ pc' = "added"
    /\ UNCHANGED <<scanner, ret, calls, eofSeen, doc, content, original, pair>>

\* pair.add_pair(c)
AddPair ==
    /\ pc = "start"
    /\ \E c \in TreeNodes :
           /\ pair' = add_pair(pair, PairOf(c))
           /\ out' = [op |-> "add_pair", key |-> c.key]
    /\ pc' = "added"
    /\ UNCHANGED <<scanner, ret, calls, eofSeen, doc, content, original, config>>

\* the node a lookup is made on: the root (0) or one of its children
ConfigAt(at) == IF at = 0 THEN config ELSE config.value[at]
PairAt(at) == IF at = 0 THEN pair ELSE pair.value[at]

\* &config[k]
IndexConfig ==
    /\ pc # "looked"
    /\ \E at \in 0..Len(config.value), k \in Keys :
           out' = [op |-> "index", at |-> at, key |-> k, res |-> config_index(ConfigAt(at), k)]
    /\ pc' = "looked"
    /\ UNCHANGED <<scanner, ret, calls, eofSeen, doc, content, original, pair, config>>

\* pair.get(k)
Get ==
    /\ pc # "looked"
    /\ \E at \in 0..Len(pair.value), k \in Keys :
           out' = [op |-> "get", at |-> at, key |-> k, res |-> get(PairAt(at), k)]
    /\ pc' = "looked"
    /\ UNCHANGED <<scanner, ret, calls, eofSeen, doc, content, original, pair, config>>

\* pair.get_ref(k)
GetRef ==
    /\ pc # "looked"
    /\ \E at \in 0..Len(pair.value), k \in Keys :
           out' = [op |-> "get_ref", at |-> at, key |-> k, res |-> get_ref(PairAt(at), k)]
    /\ pc' = "looked"
    /\ UNCHANGED <<scanner, ret, calls, eofSeen, doc, content, original, pair, config>>

\* &pair[k]
IndexPair ==
    /\ pc # "looked"
    /\ \E at \in 0..Len(pair.value), k \in Keys :
           out' = [op |-> "pair_index", at |-> at, key |-> k, res |-> pair_index(PairAt(at), k)]
    /\ pc' = "looked"
    /\ UNCHANGED <<scanner, ret, calls, eofSeen, doc, content, original, pair, config>>

NextTree == AddChild \/ AddPair \/ IndexConfig \/ Get \/ GetRef \/ IndexPair

SpecTree == InitTree /\ [][NextTree]_vars

\* the child with key k is where it was and has every child key it had
Extended(before, after, k) ==
    LET i == CHOOSE j \in 1..Len(before.value) :
                 before.value[j].key = k /\ \A m \in 1..(j - 1) : before.value[m].key # k
    IN  /\ Len(after.value) = Len(before.value)
        /\ after.value[i].key = k
        /\ \A j \in 1..Len(before.value[i].value) :
               \E m \in 1..Len(after.value[i].value) :
                   after.value[i].value[m].key = before.value[i].value[j].key

\* C11: merge-on-duplicate never truncates: add_child / add_pair of a child
\* whose key is there already leaves that child at its position with every
\* child it had before.
C11_AddNeverTruncates ==
    [][/\ out'.op = "add_child" /\ pc = "start" /\ has_value(config, out'.key)
           => Extended(config, config', out'.key)
       /\ out'.op = "add_pair" /\ pc = "start" /\ has_key(pair, out'.key)
           => Extended(pair, pair', out'.key)]_vars

\* the node the last lookup was made on
LookedAt == IF out.op = "index" THEN ConfigAt(out.at) ELSE PairAt(out.at)

\* C17: lookup by key: the index operator, get and get_ref return the
\* immediate child with exactly that key when there is one, and fail
\* otherwise, never returning some other node.
C17_LookupByKey ==
    pc = "looked" =>
        IF \E i \in 1..Len(LookedAt.value) : LookedAt.value[i].key = out.key
        THEN /\ out.res.status = "ok"
             /\ out.res.node.key = out.key
             /\ \E i \in 1..Len(LookedAt.value) : LookedAt.value[i] = out.res.node
        ELSE out.res.status # "ok"

(***************************************************************************)
(* A text that opens with a quoted value, scanned by one call (SpecQuoted) *)
(***************************************************************************)
QuotedAlphabet == {DQ, SQ, BSL, "n", "x", NL, SP, HASH}

QuotedSources == {<<q>> \o t : q \in {DQ, SQ}, t \in SeqsUpTo(QuotedAlphabet, MaxQuoted)}

\* what a call of next_token hands back, and where the scanner stands after it
ScanView(r) ==
    [status |-> r.status,
     err |-> r.err,
     lexemes |-> [i \in 1..Len(r.sc.tokens) |-> r.sc.tokens[i].lexeme],
     kinds |-> [i \in 1..Len(r.sc.tokens) |-> r.sc.tokens[i].kind],
     current |-> r.sc.current]

InitQuoted ==
    /\ content \in QuotedSources
    /\ out = [status |-> "none"]
    /\ pc = "start"
    /\ scanner = None
    /\ ret = None
    /\ calls = 0
    /\ eofSeen = FALSE
    /\ doc = None
    /\ config = None
    /\ original = None
    /\ pair = None

\* Scanner2::new(content).next_token()
ScanQuoted ==
    /\ pc = "start"
    /\ out' = ScanView(next(ScannerNew(content)))
    /\ pc' = "scanned"
    /\ UNCHANGED <<pair, scanner, ret, calls, eofSeen, doc, content, original, config>>

\* parse_config(content)
ParseQuoted ==
    /\ pc = "scanned"
    /\ config' = Outcome(parse_config(content))
    /\ pc' = "parsed"
    /\ UNCHANGED <<pair, scanner, ret, calls, eofSeen, doc, content, original, out>>

NextQuoted == ScanQuoted \/ ParseQuoted

SpecQuoted == InitQuoted /\ [][NextQuoted]_vars

(***************************************************************************)
(* The quoted value a text opens with, read by the grammar                 *)
(***************************************************************************)
RECURSIVE SkipBlanks(_, _)
\* the first position from i on that holds neither a space nor a tab
SkipBlanks(text, i) ==
    IF i <= Len(text) /\ text[i] \in {SP, TAB} THEN SkipBlanks(text, i + 1) ELSE i

RECURSIVE ReadQuoted(_, _, _)
\* from position i inside the value opened with q: where it closes, the
\* escape that is not allowed, or that the text ends first
ReadQuoted(text, q, i) ==
    IF i > Len(text) THEN [kind |-> "unterminated", pos |-> i]
    ELSE IF text[i] = q THEN [kind |-> "closed", pos |-> i]
    ELSE IF text[i] # BSL THEN ReadQuoted(text, q, i + 1)
    ELSE IF i + 1 > Len(text) THEN [kind |-> "unterminated", pos |-> i + 1]
    ELSE IF text[i + 1] \in {"n", "r", BSL, q} THEN ReadQuoted(text, q, i + 2)
    ELSE IF text[i + 1] = CR /\ i + 2 <= Len(text) /\ text[i + 2] = NL
    THEN ReadQuoted(text, q, SkipBlanks(text, i + 3))
    ELSE IF text[i + 1] \in {NL, CR} THEN ReadQuoted(text, q, SkipBlanks(text, i + 2))
    ELSE [kind |-> "escape", pos |-> i + 1]

\* the value that content opens with
Opening == ReadQuoted(content, content[1], 2)

\* C12: escape validation at scan time: in a value opened with q a backslash
\* before n, r, a backslash, q or a line terminator is accepted, and a
\* backslash before any other character fails the scan at once, at that
\* character, with the unknown-escape error.
C12_EscapeValidation ==
    pc # "start" =>
        /\ Opening.kind = "escape" =>
               out.status = "err" /\ out.err = "UnknownFormatCode" /\ out.current = Opening.pos - 1
        /\ Opening.kind = "closed" => out.err # "UnknownFormatCode"

\* no backslash in the text: escapes play no part
NoEscape == \A i \in 1..Len(content) : content[i] # BSL

\* C13: unterminated string: when the text ends before the closing quote the
\* scan returns the error UnterminatedString, with no token for the
\* unfinished value and without reading past the end of the text.
C13_UnterminatedString ==
    pc # "start" /\ NoEscape /\ Opening.kind = "unterminated" =>
        /\ out.status = "err"
        /\ out.err = "UnterminatedString"
        /\ out.lexemes = <<>>
        /\ out.current <= Len(content)

\* the first position after the closing quote and the blanks that follow it
AfterValue == SkipBlanks(content, Opening.pos + 1)

\* C14: trailing characters after a quoted value: blanks and then a line
\* terminator, the end of the text or a '#' comment are accepted and give no
\* token; anything else on the line fails with TrailingCharacters.
C14_TrailingCharacters ==
    pc # "start" /\ NoEscape /\ Opening.kind = "closed" =>
        IF AfterValue > Len(content) \/ content[AfterValue] \in {NL, CR, HASH}
        THEN /\ out.status = "ok"
             /\ out.kinds = <<"Value">>
        ELSE out.status = "err" /\ out.err = "TrailingCharacters"

(***************************************************************************)
(* parse_quoted: the key of a node decoded                                 *)
(***************************************************************************)
DecodeOk(text) == [status |-> "ok", text |-> text]
DecodeErr(e) == [status |-> "err", err |-> e]
DecodePanic == [status |-> "panic"]

\* Config::quoted
quoted(node) == node.quotes # None

RECURSIVE quoted_blanks(_, _)
\* while bytes[i] == b' ' || bytes[i] == b'\t' { i += 1; if i >= bytes.len() { return Err } }
\* 0 stands for the Err
quoted_blanks(bytes, i) ==
    IF bytes[i] \in {SP, TAB}
    THEN IF i + 1 > Len(bytes) THEN 0 ELSE quoted_blanks(bytes, i + 1)
    ELSE i

RECURSIVE parse_quoted_loop(_, _, _)
\* the while loop of Config::parse_quoted (config.rs); position i is bytes[i - 1] of the code
parse_quoted_loop(bytes, i, value) ==
    IF i > Len(bytes) THEN DecodeOk(value)
    ELSE IF bytes[i] # BSL THEN parse_quoted_loop(bytes, i + 1, Append(value, bytes[i]))
    ELSE IF i + 1 > Len(bytes) THEN DecodeErr("UnterminatedString")
    ELSE IF bytes[i + 1] = "n" THEN parse_quoted_loop(bytes, i + 2, Append(value, NL))
    ELSE IF bytes[i + 1] = "r" THEN parse_quoted_loop(bytes, i + 2, Append(value, CR))
    ELSE IF bytes[i + 1] = BSL THEN parse_quoted_loop(bytes, i + 2, Append(value, BSL))
    ELSE IF bytes[i + 1] \in {DQ, SQ}
    THEN parse_quoted_loop(bytes, i + 2, Append(value, bytes[i + 1]))
    ELSE IF bytes[i + 1] \in {CR, NL}
    THEN IF i + 2 > Len(bytes) THEN DecodeErr("UnterminatedString")
         ELSE IF quoted_blanks(bytes, i + 2) = 0 THEN DecodeErr("UnterminatedString")
         ELSE parse_quoted_loop(bytes, quoted_blanks(bytes, i + 2), value)
    ELSE DecodeErr("ParseUnknownEscape")

\* Config::parse_quoted (config.rs)
parse_quoted(node) ==
    IF ~quoted(node) THEN DecodeOk(node.key) ELSE parse_quoted_loop(node.key, 1, <<>>)

RECURSIVE pair_quoted_blanks(_, _)
\* while bytes[i] == b' ' || bytes[i] == b'\t' { i += 1; }: 0 stands for an
\* index past the end of bytes
pair_quoted_blanks(bytes, i) ==
    IF i > Len(bytes) THEN 0
    ELSE IF bytes[i] \in {SP, TAB} THEN pair_quoted_blanks(bytes, i + 1)
    ELSE i

RECURSIVE pair_parse_quoted_loop(_, _, _)
\* the while loop of Config::parse_quoted (pair.rs): while i < bytes.len() - 1
pair_parse_quoted_loop(bytes, i, value) ==
    IF i > Len(bytes) - 1 THEN DecodeOk(value)
    ELSE IF bytes[i] # BSL THEN pair_parse_quoted_loop(bytes, i + 1, Append(value, bytes[i]))
    ELSE IF bytes[i + 1] = "n" THEN pair_parse_quoted_loop(bytes, i + 2, Append(value, NL))
    ELSE IF bytes[i + 1] = "r" THEN pair_parse_quoted_loop(bytes, i + 2, Append(value, CR))
    ELSE IF bytes[i + 1] = BSL THEN pair_parse_quoted_loop(bytes, i + 2, Append(value, BSL))
    ELSE IF bytes[i + 1] \in {DQ, SQ}
    THEN pair_parse_quoted_loop(bytes, i + 2, Append(value, bytes[i + 1]))
    ELSE IF bytes[i + 1] \in {CR, NL}
    THEN IF pair_quoted_blanks(bytes, i + 2) = 0 THEN DecodePanic
         ELSE pair_parse_quoted_loop(bytes, pair_quoted_blanks(bytes, i + 2), value)
    ELSE DecodeErr("UnknownFormatCode")

\* Config::parse_quoted (pair.rs): the key holds its quotes
pair_parse_quoted(node) ==
    IF node.key # <<>> /\ node.key[1] \in {DQ, SQ}
    THEN IF Len(node.key) < 2 THEN DecodePanic
         ELSE pair_parse_quoted_loop(node.key, 2, <<>>)
    ELSE DecodeOk(node.key)

(***************************************************************************)
(* Nodes made by hand and decoded (SpecDecode)                             *)
(***************************************************************************)
KeyAlphabet == {BSL, "n", "x", NL, CR, SP, DQ}

RawKeys == SeqsUpTo(KeyAlphabet, MaxKey)

QuoteKinds == {None, "Single", "Double"}

InitDecode ==
    /\ config \in {[key |-> k, quotes |-> q, value |-> <<>>] : k \in RawKeys, q \in QuoteKinds}
    /\ out = [op |-> "none"]
    /\ pc = "start"
    /\ scanner = None
    /\ ret = None
    /\ calls = 0
    /\ eofSeen = FALSE
    /\ doc = None
    /\ content = None
    /\ original = None
    /\ pair = None

\* config.parse_quoted(), the Config of config.rs
ParseQuotedKey ==
    /\ pc = "start"
    /\ out' = [op |-> "parse_quoted", res |-> parse_quoted(config)]
    /\ pc' = "decoded"
    /\ UNCHANGED <<pair, scanner, ret, calls, eofSeen, doc, content, original, config>>

\* the node as the Config of pair.rs has it: the quotes are part of the key
WithQuotes(node) == [node EXCEPT !.key = QuoteChar(node.quotes) \o node.key \o QuoteChar(node.quotes)]

\* config.parse_quoted(), the Config of pair.rs, which holds a key as quoted
\* exactly when the key starts with a quote
PairParseQuotedKey ==
    /\ pc = "start"
    /\ config.quotes = None => pair_parse_quoted(config) = DecodeOk(config.key)
    /\ out' = [op |-> "pair_parse_quoted", res |-> pair_parse_quoted(WithQuotes(config))]
    /\ pc' = "decoded"
    /\ UNCHANGED <<pair, scanner, ret, calls, eofSeen, doc, content, original, config>>

NextDecode == ParseQuotedKey \/ PairParseQuotedKey

SpecDecode == InitDecode /\ [][NextDecode]_vars

RECURSIVE Decoded(_, _)
\* the escape grammar read left to right from position i
Decoded(key, i) ==
    IF i > Len(key) THEN <<>>
    ELSE IF key[i] # BSL \/ i = Len(key) THEN <<key[i]>> \o Decoded(key, i + 1)
    ELSE IF key[i + 1] = "n" THEN <<NL>> \o Decoded(key, i + 2)
    ELSE IF key[i + 1] = "r" THEN <<CR>> \o Decoded(key, i + 2)
    ELSE IF key[i + 1] \in {BSL, DQ, SQ} THEN <<key[i + 1]>> \o Decoded(key, i + 2)
    ELSE IF key[i + 1] = CR /\ i + 2 <= Len(key) /\ key[i + 2] = NL
    THEN Decoded(key, SkipBlanks(key, i + 3))
    ELSE IF key[i + 1] = NL THEN Decoded(key, SkipBlanks(key, i + 2))
    ELSE <<key[i], key[i + 1]>> \o Decoded(key, i + 2)

RECURSIVE EscapesComplete(_, _)
\* every backslash of the raw key is followed by a character of the key
EscapesComplete(key, i) ==
    IF i > Len(key) THEN TRUE
    ELSE IF key[i] # BSL THEN EscapesComplete(key, i + 1)
    ELSE i < Len(key) /\ EscapesComplete(key, i + 2)

\* C15: parse_quoted decodes by the escape grammar: the result of a
\* successful parse_quoted of a quoted node (no backslash of its raw key
\* left dangling) is the decoding of its raw key read left to right, and of
\* an unquoted node the key itself.
C15_ParseQuotedDecodes ==
    pc = "decoded" /\ out.res.status = "ok" /\ EscapesComplete(config.key, 1) =>
        IF config.quotes = None THEN out.res.text = config.key
        ELSE out.res.text = Decoded(config.key, 1)

(***************************************************************************)
(* One key text spelled unquoted, single-quoted and double-quoted          *)
(* (SpecSpelled)                                                           *)
(***************************************************************************)
Spellings == {[text |-> k, quotes |-> q] : k \in Keys, q \in QuoteKinds}

\* the key as the document spells it
Spelled(sp) == QuoteChar(sp.quotes) \o sp.text \o QuoteChar(sp.quotes)

SpelledBlocks == UNION {[1..n -> Spellings] : n \in 1..MaxSpelled}

\* the lines of a block under the parent key p, or at the top level
SpelledText(nested, lines) ==
    IF nested
    THEN <<"p", NL>> \o Flatten([i \in 1..Len(lines) |-> <<TAB>> \o Spelled(lines[i]) \o <<NL>>])
    ELSE Flatten([i \in 1..Len(lines) |-> Spelled(lines[i]) \o <<NL>>])

InitSpelled ==
    /\ doc \in {[nested |-> n, lines |-> ls] : n \in BOOLEAN, ls \in SpelledBlocks}
    /\ content = SpelledText(doc.nested, doc.lines)
    /\ out = <<>>
    /\ pc = "start"
    /\ scanner = None
    /\ ret = None
    /\ calls = 0
    /\ eofSeen = FALSE
    /\ config = None
    /\ original = None
    /\ pair = None

\* parse_config(content)
ParseSpelled ==
    /\ pc = "start"
    /\ config' = Outcome(parse_config(content))
    /\ pc' = "parsed"
    /\ UNCHANGED <<pair, scanner, ret, calls, eofSeen, doc, content, original, out>>

\* config["p"].values(), or config.values() for a block at the top level
ValuesSpelled ==
    /\ pc = "parsed"
    /\ config.status = "ok"
    /\ out' = IF doc.nested THEN values(Index(config.config, <<"p">>)) ELSE values(config.config)
    /\ pc' = "read"
    /\ UNCHANGED <<pair, scanner, ret, calls, eofSeen, doc, content, original, config>>

NextSpelled == ParseSpelled \/ ValuesSpelled

SpecSpelled == InitSpelled /\ [][NextSpelled]_vars

\* the text a yielded key denotes: the key without the quotes around it
Denoted(key) ==
    IF Len(key) >= 2 /\ key[1] \in {DQ, SQ} /\ key[Len(key)] = key[1]
    THEN SubSeq(key, 2, Len(key) - 1)
    ELSE key

\* C16: quoting does not change key identity: every text written under the
\* parent, in whatever spellings, is yielded by values() of the parent
\* exactly once, and the document parses.
C16_QuotingKeepsIdentity ==
    /\ pc = "parsed" => config.status = "ok"
    /\ pc = "read" =>
        \A i \in 1..Len(doc.lines) :
            Cardinality({j \in 1..Len(out) : Denoted(out[j]) = doc.lines[i].text}) = 1

(***************************************************************************)
(* The loops of the scanner and of the parser, one turn at a time          *)
(* (SpecLoops)                                                             *)
(***************************************************************************)
LoopAlphabet == {"a", NL, TAB, SP, DQ}

LoopSources == SeqsUpTo(LoopAlphabet, MaxLoopLen)

\* what comes back from a call: a tree, an error, or nothing (a panic)
Returned(r) == [status |-> r.status, config |-> r.config, err |-> r.err]

NotReturned == [status |-> "none"]

\* no descent loop is running
NoFrame == [kind |-> "none"]

\* the locals of parse_kv while one of its while loops runs
Frame(kind, next_indent, node) == [kind |-> kind, next_indent |-> next_indent, node |-> node]

InitLoops ==
    /\ content \in LoopSources
    /\ scanner = ScannerNew(content)
    /\ config = ConfigNew(TOP_LEVEL_KEY)
    /\ doc = NoFrame
    /\ out = NotReturned
    /\ ret = [op |-> "none"]
    /\ pc \in {"scan", "top"}
    /\ calls = 0
    /\ eofSeen = FALSE
    /\ original = None
    /\ pair = None

\* the state after the call of next whose result is r
ScanTurned(r) ==
    /\ scanner' = r.sc
    /\ ret' = [op |-> "next", status |-> r.status,
               eof |-> r.status = "ok" /\ r.sc.tokens[Len(r.sc.tokens)].kind = "EOF"]
    /\ pc' = IF ret'.status # "ok" \/ ret'.eof THEN "scanned" ELSE "scan"

\* one turn of scan_all: while self.next()?.kind != TokenKind::EOF {}
ScanTurn ==
    /\ pc = "scan"
    /\ ScanTurned(next(scanner))
    /\ UNCHANGED <<pair, calls, eofSeen, doc, content, original, config, out>>

\* the call returns r
Return(r) ==
    /\ out' = Returned(r)
    /\ pc' = "returned"
    /\ scanner' = r.sc
    /\ UNCHANGED <<config, doc>>

\* parse_kv goes on to parent.add_child(node) without a descent
TopAdd(s, node) ==
    /\ config' = add_child(config, node)
    /\ scanner' = s
    /\ pc' = "top"
    /\ UNCHANGED <<doc, out>>

\* parse_kv enters one of its while loops, or does not
TopDescent(s, kind, expected, n, next_indent, node) ==
    IF n = expected
    THEN /\ doc' = Frame(kind, next_indent, node)
         /\ scanner' = s
         /\ pc' = "descent"
         /\ UNCHANGED <<config, out>>
    ELSE TopAdd(s, node)

\* match scanner.peek_token(0)?.kind { .. } of the parse_kv of the top level
TopPeeked(p, node) ==
    IF p.status # "ok" THEN Return(ParseFail(p.status, p.sc, p.err))
    ELSE IF p.tok.kind = "Tabs"
    THEN TopDescent(p.sc, "Tabs", level_tabs(increase_tabs(TopLevel)), p.tok.n,
                    increase_tabs(TopLevel), node)
    ELSE IF p.tok.kind = "Spaces"
    THEN TopDescent(p.sc, "Spaces",
                    level_spaces(increase_spaces(TopLevel, unwrap_or(width(TopLevel), p.tok.n))),
                    p.tok.n,
                    increase_spaces(TopLevel, unwrap_or(width(TopLevel), p.tok.n)), node)
    ELSE TopAdd(p.sc, node)

\* let value = consume(scanner, TokenKind::Value)?.lexeme; let mut node = ..
TopConsumed(c) ==
    IF c.status # "ok" THEN Return(ParseFail(c.status, c.sc, c.err))
    ELSE TopPeeked(peek_token(c.sc, 0),
                   IF has_value(config, c.tok.lexeme) THEN Index(config, c.tok.lexeme)
                   ELSE ConfigNew(c.tok.lexeme))

\* while scanner.peek_token(0)?.kind != TokenKind::EOF
TopLooked(p) ==
    IF p.status # "ok" THEN Return(ParseFail(p.status, p.sc, p.err))
    ELSE IF p.tok.kind = "EOF" THEN Return(ParseOk(p.sc, config))
    ELSE TopConsumed(consume(p.sc, "Value", 0))

\* one turn of the loop of parse_with, up to the while loop of its parse_kv
TopTurn ==
    /\ pc = "top"
    /\ TopLooked(peek_token(scanner, 0))
    /\ ret' = [op |-> "top"]
    /\ UNCHANGED <<pair, calls, eofSeen, content, original>>

\* parse_kv(scanner, next_indent, &mut node)?;
DescentParsed(r) ==
    IF r.status # "ok" THEN Return(r)
    ELSE /\ doc' = [doc EXCEPT !.node = r.config]
         /\ scanner' = r.sc
         /\ pc' = "descent"
         /\ UNCHANGED <<config, out>>

\* consume(scanner, kind).unwrap();
DescentConsumed(c) ==
    IF c.status # "ok" THEN Return(ParseFail("panic", c.sc, "unwrap"))
    ELSE DescentParsed(parse_kv(c.sc, doc.next_indent, doc.node))

\* while scanner.peek_token(0)?.kind == kind(expected)
DescentLooked(p, expected) ==
    IF p.status # "ok" THEN Return(ParseFail(p.status, p.sc, p.err))
    ELSE IF p.tok.kind = doc.kind /\ p.tok.n = expected
    THEN DescentConsumed(consume(p.sc, doc.kind, expected))
    ELSE /\ config' = add_child(config, doc.node)
         /\ doc' = NoFrame
         /\ scanner' = p.sc
         /\ pc' = "top"
         /\ UNCHANGED out

\* one turn of a while loop of the parse_kv of the top level; when the loop
\* ends, parent.add_child(node)
DescentTurn ==
    /\ pc = "descent"
    /\ DescentLooked(peek_token(scanner, 0),
                     IF doc.kind = "Tabs" THEN level_tabs(doc.next_indent)
                     ELSE level_spaces(doc.next_indent))
    /\ ret' = [op |-> "descent"]
    /\ UNCHANGED <<pair, calls, eofSeen, content, original>>

NextLoops == ScanTurn \/ TopTurn \/ DescentTurn

SpecLoops == InitLoops /\ [][NextLoops]_vars

RECURSIVE Remaining(_, _)
\* how many tokens next_token hands out before the EOF token (or a failure), up to n
Remaining(s, n) ==
    IF n = 0 THEN 0
    ELSE IF next_token(s).status # "ok" THEN 0
    ELSE IF next_token(s).tok.kind = "EOF" THEN 0
    ELSE 1 + Remaining(next_token(s).sc, n - 1)

\* no text of n characters holds more than n + 1 tokens
Left(s) == Remaining(s, Len(s.source) + 2)

\* a call of next that returns a token consumed a character or pushed EOF
ScanAdvances ==
    pc = "scan" /\ ret'.op = "next" /\ ret'.status = "ok" =>
        scanner'.current > scanner.current \/ ret'.eof

\* a turn of a parser loop that leads to another turn consumed a token
TurnConsumes ==
    pc \in {"top", "descent"} /\ pc' \in {"top", "descent"} /\ scanner' # scanner =>
        Left(scanner') < Left(scanner)

\* a parser loop ends only by taking no token, and then the next turn is
\* the enclosing loop's
TurnOrExit ==
    pc \in {"top", "descent"} /\ pc' \in {"top", "descent"} /\ scanner' = scanner =>
        pc = "descent" /\ pc' = "top"

\* what ends a call is a tree or an error
ReturnsTreeOrError ==
    /\ pc' = "returned" => out'.status \in {"ok", "err"}
    /\ pc' = "scanned" => ret'.status \in {"ok", "err"}

\* C18: termination: every call of the scanner's token production consumes
\* at least one character or emits EOF, every turn of the parser's top-level
\* loop and of its descent loops consumes at least one token, and the call
\* ends by returning a tree or an error.
C18_Termination ==
    [][ScanAdvances /\ TurnConsumes /\ TurnOrExit /\ ReturnsTreeOrError]_vars

(***************************************************************************)
(* One block indented with spaces, any number of them on a line            *)
(* (SpecSpaces)                                                            *)
(***************************************************************************)
\* a line of the block: so many spaces, then the key
Indented(spaces, key) == [spaces |-> spaces, key |-> key]

RECURSIVE SpaceBlocksOfLen(_)
\* the blocks of n lines: a top-level key, then lines of 1..MaxSpaces spaces
SpaceBlocksOfLen(n) ==
    IF n = 1 THEN {<<Indented(0, k)>> : k \in Keys}
    ELSE UNION {{Append(b, Indented(sp, k)) : sp \in 1..MaxSpaces, k \in Keys} :
                b \in SpaceBlocksOfLen(n - 1)}

SpaceBlocks == UNION {SpaceBlocksOfLen(n) : n \in 1..MaxBlock}

SpaceBlockText(b) ==
    Flatten([i \in 1..Len(b) |-> Repeat(<<SP>>, b[i].spaces) \o b[i].key \o <<NL>>])

InitSpaces ==
    /\ doc \in SpaceBlocks
    /\ content = SpaceBlockText(doc)
    /\ config = None
    /\ out = None
    /\ pc = "start"
    /\ scanner = None
    /\ ret = None
    /\ calls = 0
    /\ eofSeen = FALSE
    /\ original = None
    /\ pair = None

\* parse_config(content)
ParseSpaces ==
    /\ pc = "start"
    /\ config' = Outcome(parse_config(content))
    /\ pc' = "parsed"
    /\ UNCHANGED <<pair, scanner, ret, calls, eofSeen, doc, content, original, out>>

NextSpaces == ParseSpaces

SpecSpaces == InitSpaces /\ [][NextSpaces]_vars

\* the width of the block: the spaces of its first indented line
BlockWidth(b) == IF Len(b) >= 2 THEN b[2].spaces ELSE 1

\* line i is w * d spaces in, d >= 1, and the line before it is at depth d - 1 or deeper
Fits(b, i) ==
    /\ b[i].spaces % BlockWidth(b) = 0
    /\ b[i].spaces \div BlockWidth(b) >= 1
    /\ b[i - 1].spaces \div BlockWidth(b) >= (b[i].spaces \div BlockWidth(b)) - 1

AllFit(b) == \A i \in 2..Len(b) : Fits(b, i)

\* the lines of the block, each at depth (its spaces / the width)
DepthLines(b) == [i \in 1..Len(b) |-> Line(b[i].spaces \div BlockWidth(b), b[i].key)]

\* C19: space width is fixed per block by its first indented line: the
\* lines of a block become nodes exactly when each of them is w * d spaces in
\* (w the spaces of the first indented line, d >= 1) with the node before it
\* at depth d - 1 or deeper; every node then sits at depth (its spaces / w)
\* under the nearest node before it that is one level up.  A line that does
\* not fit ends the parse with an error.
C19_SpaceWidthFixed ==
    pc = "parsed" =>
        /\ config.status = (IF AllFit(doc) THEN "ok" ELSE "err")
        /\ AllFit(doc) => config.config = MergedTree(DepthLines(doc))

\* a block of width 2: depths 1, 2, 1
C19_Witness ==
    /\ pc = "parsed"
    /\ Len(doc) = 4
    /\ <<doc[2].spaces, doc[3].spaces, doc[4].spaces>> = <<2, 4, 2>>
    /\ doc[2].key # doc[4].key
    /\ config.status = "ok"
    /\ Len(config.config.value[1].value) = 2
    /\ Len(config.config.value[1].value[1].value) = 1

(***************************************************************************)
(* One call of parse_kv at a level, an indented line next (SpecStep)       *)
(***************************************************************************)
\* the levels a call of parse_kv can be at
Indents ==
    {TopLevel} \cup {IndentTabs(l) : l \in 1..MaxLevel}
        \cup {IndentSpaces(w, l) : w \in 1..MaxWidth, l \in 1..MaxLevel}

\* the parent the key goes into: without the key, or with it and a child under it
StepParents(key) ==
    {ConfigNew(<<"p">>),
     [ConfigNew(<<"p">>) EXCEPT !.value = <<[ConfigNew(key) EXCEPT !.value = <<ConfigNew(<<"b">>)>>]>>]}

\* the key's line, then a line indented by n of the character c
StepText(key, c, n, below) == key \o <<NL>> \o Repeat(<<c>>, n) \o below \o <<NL>>

InitStep ==
    /\ doc \in {[indent |-> i, c |-> c, n |-> n, key |-> k, below |-> b] :
                   i \in Indents, c \in {TAB, SP}, n \in 1..MaxRun, k \in Keys, b \in Keys}
    /\ content = StepText(doc.key, doc.c, doc.n, doc.below)
    /\ scanner = ScannerNew(content)
    /\ config \in StepParents(doc.key)
    /\ out = NotReturned
    /\ pc = "start"
    /\ ret = None
    /\ calls = 0
    /\ eofSeen = FALSE
    /\ original = None
    /\ pair = None

\* the state after the call of parse_kv whose result is r
KvReturned(r) ==
    /\ out' = Returned(r)
    /\ scanner' = r.sc

\* parse_kv(scanner, indent, &mut parent)
ParseKv ==
    /\ pc = "start"
    /\ KvReturned(parse_kv(scanner, doc.indent, config))
    /\ pc' = "stepped"
    /\ UNCHANGED <<pair, ret, calls, eofSeen, doc, content, original, config>>

NextStepKv == ParseKv

SpecStep == InitStep /\ [][NextStepKv]_vars

\* the count of the indentation token is not the count of the next level, or
\* its character is not the one the branch is indented with
Mismatch(d) ==
    IF d.c = TAB
    THEN d.indent.tag = "Spaces" \/ d.n # d.indent.level + 1
    ELSE \/ d.indent.tag = "Tabs"
         \/ d.indent.tag = "Spaces" /\ d.n # d.indent.width * (d.indent.level + 1)

\* the node of the key as it was before the call: the child of that key, or a leaf
NodeBefore(parent, key) == IF has_value(parent, key) THEN Index(parent, key) ELSE RefNode(key)

\* C20: indentation mismatch is match-or-stop, for tabs and for spaces
\* alike: when the token after the key is an indentation token of another
\* count than the next level's, or of the other whitespace character, the
\* call of parse_kv returns Ok, the indentation token is still the next
\* token, and the key is in the parent with the children it had before.
C20_MatchOrStop ==
    pc = "stepped" /\ Mismatch(doc) =>
        /\ out.status = "ok"
        /\ scanner.tokens # <<>>
        /\ Head(scanner.tokens).kind = (IF doc.c = TAB THEN "Tabs" ELSE "Spaces")
        /\ Head(scanner.tokens).n = doc.n
        /\ has_value(out.config, doc.key)
        /\ Index(out.config, doc.key) = NodeBefore(config, doc.key)
        /\ Len(out.config.value) = 1

(***************************************************************************)
(* Documents whose lines are indented in any way (SpecIndent)              *)
(***************************************************************************)
\* a line: n of the character c, then the key
Dented(c, n, key) == [c |-> c, n |-> n, key |-> key]

DentedLines ==
    {Dented(SP, 0, k) : k \in Keys}
        \cup {Dented(c, n, k) : c \in {TAB, SP}, n \in 1..MaxDent, k \in Keys}

DentedDocs == UNION {[1..m -> DentedLines] : m \in 1..MaxDentLines}

DentedText(d) ==
    Flatten([i \in 1..Len(d) |-> Repeat(<<d[i].c>>, d[i].n) \o d[i].key \o <<NL>>])

InitIndent ==
    /\ doc \in DentedDocs
    /\ content = DentedText(doc)
    /\ config = None
    /\ out = None
    /\ pc = "start"
    /\ scanner = None
    /\ ret = None
    /\ calls = 0
    /\ eofSeen = FALSE
    /\ original = None
    /\ pair = None

\* parse_config(content)
ParseIndent ==
    /\ pc = "start"
    /\ config' = Outcome(parse_config(content))
    /\ pc' = "parsed"
    /\ UNCHANGED <<pair, scanner, ret, calls, eofSeen, doc, content, original, out>>

NextIndent == ParseIndent

SpecIndent == InitIndent /\ [][NextIndent]_vars

\* the open levels before the first line: none, not even the top level's children
NoBlock == [c |-> "none", w |-> 0, depth |-> 0 - 1]

\* the open levels after a top-level line
OpenBlock == [c |-> "none", w |-> 0, depth |-> 0]

\* line l is indented as one of the open levels is
MatchesOpen(l, open) ==
    IF l.n = 0 THEN TRUE
    ELSE IF open.depth < 0 THEN FALSE
    ELSE IF open.c = "none" THEN l.c = SP \/ l.n = 1
    ELSE /\ l.c = open.c
         /\ l.n % open.w = 0
         /\ l.n \div open.w <= open.depth + 1

\* the open levels after a line that matched
OpenAfter(l, open) ==
    IF l.n = 0 THEN OpenBlock
    ELSE IF open.c = "none" THEN [c |-> l.c, w |-> l.n, depth |-> 1]
    ELSE [open EXCEPT !.depth = l.n \div open.w]

RECURSIVE AllMatch(_, _, _)
\* every line from line i on is indented as an open level is
AllMatch(d, i, open) ==
    IF i > Len(d) THEN TRUE
    ELSE MatchesOpen(d[i], open) /\ AllMatch(d, i + 1, OpenAfter(d[i], open))

Unmatched(d) == ~AllMatch(d, 1, NoBlock)

\* C21: unmatched indentation is rejected: when some line of the document
\* is indented as no open level is (an indented first line, a line more than
\* one level deeper than the line before it, a dedent to a width no open
\* ancestor has, tabs and spaces mixed in a block), parse returns the
\* UnexpectedToken error and no tree.
C21_UnmatchedRejected ==
    pc = "parsed" /\ Unmatched(doc) =>
        config.status = "err" /\ config.err = "UnexpectedToken"

RECURSIVE Dangling(_, _)
\* read left to right from position i, the raw key ends in a lone backslash,
\* or in a backslash and a line terminator with nothing but blanks after it
Dangling(key, i) ==
    IF i > Len(key) THEN FALSE
    ELSE IF key[i] # BSL THEN Dangling(key, i + 1)
    ELSE IF i = Len(key) THEN TRUE
    ELSE IF key[i + 1] = CR /\ i + 2 <= Len(key) /\ key[i + 2] = NL
    THEN SkipBlanks(key, i + 3) > Len(key) \/ Dangling(key, SkipBlanks(key, i + 3))
    ELSE IF key[i + 1] \in {CR, NL}
    THEN SkipBlanks(key, i + 2) > Len(key) \/ Dangling(key, SkipBlanks(key, i + 2))
    ELSE Dangling(key, i + 2)

\* C22: parse_quoted is total and bounds-safe: for a quoted node of any raw
\* key it returns the decoded text or an error, never reading outside the
\* key, and a raw key that ends in a lone backslash, or in a continuation
\* that runs to the end of the text, gives an error.
C22_ParseQuotedTotal ==
    pc = "decoded" /\ quoted(config) =>
        /\ out.res.status \in {"ok", "err"}
        /\ Dangling(config.key, 1) => out.res.status = "err"

(***************************************************************************)
(* Texts that spell the key of the root (SpecRoot)                         *)
(***************************************************************************)
\* the thirteen characters of TOP_LEVEL_KEY as one piece of text: none of
\* them is a character the scanner treats specially
Sentinel == TOP_LEVEL_KEY[1]

RootAlphabet == {"a", Sentinel, NL, TAB}

RootSources == SeqsUpTo(RootAlphabet, MaxRootLen)

\* the texts parsed onto a seed
RootOverlays == {<<"a", NL>>, <<Sentinel, NL>>, <<"a", NL, TAB, Sentinel, NL>>}

InitRoot ==
    /\ content \in RootSources
    /\ config = None
    /\ out = NotReturned
    /\ pc = "start"
    /\ doc = None
    /\ scanner = None
    /\ ret = None
    /\ calls = 0
    /\ eofSeen = FALSE
    /\ original = None
    /\ pair = None

\* parse_config(content)
ParseRoot ==
    /\ pc = "start"
    /\ config' = Outcome(parse_config(content))
    /\ pc' = "parsed"
    /\ UNCHANGED <<pair, scanner, ret, calls, eofSeen, doc, content, original, out>>

\* parse_config_with(&config, overlay), config a tree parse_config returned
ParseRootWith ==
    /\ pc = "parsed"
    /\ config.status = "ok"
    /\ \E overlay \in RootOverlays :
           /\ doc' = overlay
           /\ out' = Returned(parse_config_with(config.config, overlay))
    /\ pc' = "overlaid"
    /\ UNCHANGED <<pair, scanner, ret, calls, eofSeen, content, original, config>>

NextRoot == ParseRoot \/ ParseRootWith

SpecRoot == InitRoot /\ [][NextRoot]_vars

RECURSIVE KeyBelow(_, _)
\* some node under the node has the key
KeyBelow(node, key) ==
    \E i \in 1..Len(node.value) : node.value[i].key = key \/ KeyBelow(node.value[i], key)

\* the root has the key of the root and no other node has it
RootAlone(tree) == tree.key = TOP_LEVEL_KEY /\ ~KeyBelow(tree, TOP_LEVEL_KEY)

\* C23: reserved root key: in every tree parse returns, and parse_with
\* returns on a seed that parse returned, the root is the only node whose key
\* is TOP_LEVEL_KEY.
C23_ReservedRootKey ==
    /\ pc = "parsed" /\ config.status = "ok" => RootAlone(config.config)
    /\ pc = "overlaid" /\ out.status = "ok" => RootAlone(out.config)

(***************************************************************************)
(* Claims about the positions of tokens (SpecLoops)                        *)
(***************************************************************************)
\* the line of position p of the text: 1 + the line terminators before it
LineOf(text, p) == 1 + Cardinality({q \in 1..(p - 1) : text[q] = NL})

\* the column of position p within its line, the first column being 1
ColumnOf(text, p) ==
    p - (IF \E q \in 1..(p - 1) : text[q] = NL
         THEN CHOOSE q \in 1..(p - 1) : text[q] = NL /\ \A o \in (q + 1)..(p - 1) : text[o] # NL
         ELSE 0)

\* the token's span is the line and the column of position p
SpanAt(tok, text, p) ==
    tok.span.line = LineOf(text, p) /\ tok.span.column = ColumnOf(text, p)

\* the value token a call of next has just pushed starts at scanner.start;
\* the indentation token pushed before it, if any, ends where the value starts
LastValue == scanner.tokens[Len(scanner.tokens)]
LastIndent == scanner.tokens[Len(scanner.tokens) - 1]

\* C24: token positions: the span of every token the scanner emits holds
\* the line (1 + the line terminators before the token's first character) and
\* the column of the token's first character within that line.
C24_TokenPositions ==
    ret.op = "next" /\ ret.status = "ok" /\ ~ret.eof /\ LastValue.lexeme # <<>> =>
        /\ SpanAt(LastValue, content, scanner.start + 1)
        /\ Len(scanner.tokens) >= 2 /\ LastIndent.kind \in {"Tabs", "Spaces"}
               /\ scanner.start - LastIndent.n >= 0
               /\ SubSeq(content, scanner.start - LastIndent.n + 1, scanner.start) = LastIndent.lexeme
            => SpanAt(LastIndent, content, scanner.start - LastIndent.n + 1)

(***************************************************************************)
(* A document with LF and with CRLF line terminators (SpecLines)           *)
(***************************************************************************)
LinesAlphabet == {"a", NL, TAB, DQ, HASH, BSL}

LinesSources == SeqsUpTo(LinesAlphabet, MaxLinesLen)

RECURSIVE ToCRLF(_, _, _)
\* the text from position i on with every LF outside a quoted value replaced
\* by CR LF; a quoted value opens after the indentation of a line
ToCRLF(text, i, lineStart) ==
    IF i > Len(text) THEN <<>>
    ELSE IF lineStart /\ text[i] \in {SP, TAB}
    THEN <<text[i]>> \o ToCRLF(text, i + 1, TRUE)
    ELSE IF lineStart /\ text[i] \in {DQ, SQ}
    THEN IF ReadQuoted(text, text[i], i + 1).kind = "closed"
         THEN SubSeq(text, i, ReadQuoted(text, text[i], i + 1).pos)
                  \o ToCRLF(text, ReadQuoted(text, text[i], i + 1).pos + 1, FALSE)
         ELSE SubSeq(text, i, Len(text))
    ELSE IF text[i] = NL THEN <<CR, NL>> \o ToCRLF(text, i + 1, TRUE)
    ELSE <<text[i]>> \o ToCRLF(text, i + 1, FALSE)

InitLines ==
    /\ content \in LinesSources
    /\ doc = ToCRLF(content, 1, TRUE)
    /\ config = None
    /\ out = NotReturned
    /\ pc = "start"
    /\ scanner = None
    /\ ret = None
    /\ calls = 0
    /\ eofSeen = FALSE
    /\ original = None
    /\ pair = None

\* parse_config of the text with LF line terminators
ParseUnix ==
    /\ pc = "start"
    /\ config' = Returned(parse_config(content))
    /\ pc' = "unix"
    /\ UNCHANGED <<pair, scanner, ret, calls, eofSeen, doc, content, original, out>>

\* parse_config of the text with CRLF line terminators
ParseDos ==
    /\ pc = "unix"
    /\ out' = Returned(parse_config(doc))
    /\ pc' = "dos"
    /\ UNCHANGED <<pair, scanner, ret, calls, eofSeen, doc, content, original, config>>

NextLines == ParseUnix \/ ParseDos

SpecLines == InitLines /\ [][NextLines]_vars

RECURSIVE KeysClean(_)
\* no key of the tree holds a carriage return
KeysClean(node) ==
    /\ \A i \in 1..Len(node.key) : node.key[i] # CR
    /\ \A i \in 1..Len(node.value) : KeysClean(node.value[i])

\* C25: line-ending independence: with every LF outside a quoted value
\* replaced by CRLF, parse succeeds exactly when it succeeds on the text with
\* LF, the two trees are equal, and no key holds a carriage return.
C25_LineEndingIndependence ==
    pc = "dos" =>
        /\ (out.status = "ok") = (config.status = "ok")
        /\ out.status = "ok" => out.config = config.config /\ KeysClean(out.config)

\* two nested lines and a quoted value, each line ended by CR LF
C25_Witness ==
    /\ pc = "dos"
    /\ content = <<"a", NL, TAB, DQ, DQ>> \o <<NL>>
    /\ doc = <<"a", CR, NL, TAB, DQ, DQ, CR, NL>>
    /\ out.status = "ok"
    /\ Len(out.config.value) = 1
    /\ Len(out.config.value[1].value) = 1

(***************************************************************************)
(* Pair::add_slice, call after call (SpecSlice)                            *)
(***************************************************************************)
RECURSIVE has_path(_, _)
\* Pair::has_path
has_path(p, path) ==
    IF path = <<>> THEN TRUE
    ELSE IF has_key(p, Head(path)) THEN has_path(pair_index(p, Head(path)).node, Tail(path))
    ELSE FALSE

\* traverse_path: if !self.has_key(&path[0]) { self.add(&path[0]); }
traverse_step(p, k) == IF ~has_key(p, k) THEN add(p, k) ELSE p

\* add_slice that appends the last element only when its key is not there
add_last_if_absent(s, k) == IF ~has_key(s, k) THEN add(s, k) ELSE s

\* add_slice: if !s.has_key(last) || s[last].value.is_empty() { s.add(last); }
add_last(s, k) ==
    IF ~has_key(s, k) \/ pair_index(s, k).node.value = <<>> THEN add(s, k) ELSE s

RECURSIVE add_slice(_, _)
\* Pair::add_slice on a non-empty path: traverse_path goes down the first
\* item of each key of the prefix, adding it when it is not there, and the
\* last element is added to the Pair it ends at
add_slice(p, path) ==
    IF Len(path) = 1 THEN add_last(p, path[1])
    ELSE [traverse_step(p, Head(path)) EXCEPT
              !.value[FirstWithKey(traverse_step(p, Head(path)), Head(path))] =
                  add_slice(@, Tail(path))]

SlicePaths == UNION {[1..n -> Keys] : n \in 1..MaxPath}

InitSlice ==
    /\ pair = PairNew(<<"top">>)
    /\ out = [op |-> "none"]
    /\ calls = 0
    /\ pc = "start"
    /\ config = None
    /\ scanner = None
    /\ ret = None
    /\ eofSeen = FALSE
    /\ doc = None
    /\ content = None
    /\ original = None

\* pair.add(key)
AddKey ==
    /\ calls < MaxAdds
    /\ \E k \in Keys :
           /\ pair' = add(pair, k)
           /\ out' = [op |-> "add", path |-> <<k>>]
    /\ calls' = calls + 1
    /\ UNCHANGED <<scanner, ret, eofSeen, doc, content, original, config, pc>>

\* pair.add_slice(path)
AddSlice ==
    /\ calls < MaxAdds
    /\ \E path \in SlicePaths :
           /\ pair' = add_slice(pair, path)
           /\ out' = [op |-> "add_slice", path |-> path]
    /\ calls' = calls + 1
    /\ UNCHANGED <<scanner, ret, eofSeen, doc, content, original, config, pc>>

NextSlice == AddKey \/ AddSlice

SpecSlice == InitSlice /\ [][NextSlice]_vars

RECURSIVE Size(_)
RECURSIVE SizeFrom(_, _)
\* the nodes of a Pair
Size(p) == 1 + SizeFrom(p.value, 1)
SizeFrom(items, i) == IF i > Len(items) THEN 0 ELSE Size(items[i]) + SizeFrom(items, i + 1)

RECURSIVE Reached(_, _)
\* the node a path that is there leads to
Reached(p, path) ==
    IF path = <<>> THEN p
    ELSE Reached(p.value[FirstWithKey(p, Head(path))], Tail(path))

\* how much of the prefix of the path is there
PrefixThere(p, path) ==
    CHOOSE n \in 0..(Len(path) - 1) :
        /\ has_path(p, SubSeq(path, 1, n))
        /\ n < Len(path) - 1 => ~has_path(p, SubSeq(path, 1, n + 1))

\* the last element is to be appended: there is no such path, or it ends at a node without children
ToAppend(p, path) == ~has_path(p, path) \/ Reached(p, path).value = <<>>

\* the items with the key k under the node the path leads to
ItemsWith(p, path, k) ==
    Cardinality({i \in 1..Len(Reached(p, path).value) : Reached(p, path).value[i].key = k})

\* C26: add_slice over any sequence of calls: after add_slice(path) the path
\* is there and so is every path that was there before; the nodes of the
\* prefix that were there are used and not doubled, those that were not are
\* made; the last element is appended when no such item is there or the one
\* there has no children (the same leaf added twice is there twice), and
\* nothing is appended when the item there has children.
C26_AddSlice ==
    [][out'.op = "add_slice" /\ calls' = calls + 1 =>
          /\ has_path(pair', out'.path)
          /\ \A q \in SlicePaths : has_path(pair, q) => has_path(pair', q)
          /\ Size(pair') = Size(pair)
                 + (Len(out'.path) - 1 - PrefixThere(pair, out'.path))
                 + (IF ToAppend(pair, out'.path) THEN 1 ELSE 0)
          /\ \A n \in 1..(Len(out'.path) - 1) :
                 has_path(pair, SubSeq(out'.path, 1, n)) =>
                     ItemsWith(pair', SubSeq(out'.path, 1, n - 1), out'.path[n])
                         = ItemsWith(pair, SubSeq(out'.path, 1, n - 1), out'.path[n])
          /\ has_path(pair, out'.path) =>
                 ItemsWith(pair', SubSeq(out'.path, 1, Len(out'.path) - 1),
                           out'.path[Len(out'.path)])
                     = ItemsWith(pair, SubSeq(out'.path, 1, Len(out'.path) - 1),
                                 out'.path[Len(out'.path)])
                           + (IF Reached(pair, out'.path).value = <<>> THEN 1 ELSE 0)]_vars

\* the leaf a, b added twice is there twice; then a, b, a added once more goes under the first
C26_Witness ==
    /\ out.op = "add_slice"
    /\ out.path = <<<<"a">>, <<"b">>, <<"a">>>>
    /\ calls = 3
    /\ Len(pair.value) = 1
    /\ Len(pair.value[1].value) = 2
    /\ pair.value[1].value[1].value = <<PairNew(<<"a">>)>>
    /\ pair.value[1].value[2] = PairNew(<<"b">>)

(***************************************************************************)
(* The keys of a parsed text decoded (SpecAccepted)                        *)
(***************************************************************************)
RECURSIVE NodesBelow(_)
\* the nodes of a tree, the root left out
NodesBelow(node) ==
    UNION {{node.value[i]} \cup NodesBelow(node.value[i]) : i \in 1..Len(node.value)}

\* the node as a Config with quoting metadata holds it: the kind of the
\* quotes, and as key the raw text between them
AsQuoted(node) ==
    IF Len(node.key) >= 2 /\ node.key[1] \in {DQ, SQ}
    THEN [node EXCEPT !.quotes = IF node.key[1] = DQ THEN "Double" ELSE "Single",
                      !.key = SubSeq(node.key, 2, Len(node.key) - 1)]
    ELSE node

\* parse_quoted of the node: as the parser built it, by the function that
\* reads the quotes off the key, and by the function that reads them off the
\* metadata
Decodings(node) ==
    [key |-> node.key,
     built |-> parse_quoted(node),
     keyed |-> pair_parse_quoted(node),
     tagged |-> parse_quoted(AsQuoted(node))]

InitAccepted ==
    /\ content \in QuotedSources
    /\ config = NotReturned
    /\ out = {}
    /\ pc = "start"
    /\ scanner = None
    /\ ret = None
    /\ calls = 0
    /\ eofSeen = FALSE
    /\ doc = None
    /\ original = None
    /\ pair = None

\* parse_config(content)
ParseAccepted ==
    /\ pc = "start"
    /\ config' = Returned(parse_config(content))
    /\ pc' = "parsed"
    /\ UNCHANGED <<pair, scanner, ret, calls, eofSeen, doc, content, original, out>>

\* node.parse_quoted() for every node of the tree
DecodeAccepted ==
    /\ pc = "parsed"
    /\ config.status = "ok"
    /\ out' = {Decodings(node) : node \in NodesBelow(config.config)}
    /\ pc' = "decoded"
    /\ UNCHANGED <<pair, scanner, ret, calls, eofSeen, doc, content, original, config>>

NextAccepted == ParseAccepted \/ DecodeAccepted

SpecAccepted == InitAccepted /\ [][NextAccepted]_vars

C28_NoParserPanic ==
    pc = "parsed" => config.status \in {"ok", "err"}

(***************************************************************************)
(* Lines indented by about u8::MAX characters (SpecWide)                   *)
(***************************************************************************)
\* run lengths on both sides of the first one a u8 cannot hold
WideRuns == (U8Max + 1 - MaxOver)..(U8Max + 1 + MaxOver)

\* widths on both sides of the first one whose second level a u8 cannot hold
HalfRuns == ((U8Max + 1) \div 2 - MaxOver)..((U8Max + 1) \div 2 + MaxOver)

\* the first widths whose third level a u8 cannot hold
ThirdRuns == (U8Max \div 3 + 1)..(U8Max \div 3 + 1 + MaxOver)

\* one long run under a top-level key; two lines of one long width; and three
\* levels of a width, then a line indented by what the third level is in u8
\* n times the character c
Run(c, n) == [i \in 1..n |-> c]

WideText(d) == Flatten([i \in 1..Len(d) |-> Run(d[i].c, d[i].n) \o d[i].key \o <<NL>>])

WideDocs ==
    {<<Dented(SP, 0, <<"a">>), Dented(c, n, k)>> : c \in {TAB, SP}, n \in WideRuns, k \in Keys}
        \cup {<<Dented(SP, 0, <<"a">>), Dented(SP, w, <<"b">>), Dented(SP, w, k)>> :
                 w \in HalfRuns, k \in Keys}
        \cup {<<Dented(SP, 0, <<"a">>), Dented(SP, w, <<"b">>), Dented(SP, 2 * w, <<"a">>),
                Dented(SP, wrapping(3 * w), k)>> : w \in ThirdRuns, k \in Keys}

InitWide ==
    /\ doc \in WideDocs
    /\ content = WideText(doc)
    /\ scanner \in {[ScannerNew(content) EXCEPT !.overflow_checks = b] : b \in BOOLEAN}
    /\ config = None
    /\ out = None
    /\ pc = "start"
    /\ ret = None
    /\ calls = 0
    /\ eofSeen = FALSE
    /\ original = None
    /\ pair = None

\* Scanner2::next until it returns the EOF token
ScanWide ==
    /\ pc = "start"
    /\ out' = TokenView(scan_all(scanner))
    /\ pc' = "scanned"
    /\ UNCHANGED <<pair, scanner, ret, calls, eofSeen, doc, content, original, config>>

\* parse(&mut scanner) on a scanner of the same text
ParseWide ==
    /\ pc = "scanned"
    /\ config' = Returned(parse(scanner))
    /\ pc' = "parsed"
    /\ UNCHANGED <<pair, scanner, ret, calls, eofSeen, doc, content, original, out>>

NextWide == ScanWide \/ ParseWide

SpecWide == InitWide /\ [][NextWide]_vars

IsDent(tok) == tok.kind \in {"Tabs", "Spaces"}

IsDented(l) == l.n > 0

\* the indentation tokens of a stream, as kind and count
Dents(tokens) ==
    LET ds == SelectSeq(tokens, IsDent)
    IN  [i \in 1..Len(ds) |-> [kind |-> ds[i].kind, n |-> ds[i].n]]

\* the indentation of the indented lines of a document, as kind and count
TrueDents(d) ==
    LET ls == SelectSeq(d, IsDented)
    IN  [i \in 1..Len(ls) |->
            [kind |-> IF ls[i].c = TAB THEN "Tabs" ELSE "Spaces", n |-> ls[i].n]]

\* C29: indentation arithmetic is exact in its 8-bit counters: the count of
\* every Tabs / Spaces token is the number of leading tabs / spaces of its
\* line, also for 256 of them and more, and the parser computes the expected
\* indentation (level + 1, width * level) without wrap-around or overflow, so
\* that a text is accepted exactly when every line is indented as an open
\* level is, and nothing panics.
C29_ExactCounters ==
    /\ pc \in {"scanned", "parsed"} =>
           out.status = "ok" /\ Dents(out.tokens) = TrueDents(doc)
    /\ pc = "parsed" =>
           /\ config.status \in {"ok", "err"}
           /\ Unmatched(doc) <=> config.status = "err"

(***************************************************************************)
(* The token stream of a text, line by line (SpecStream)                   *)
(***************************************************************************)
StreamAlphabet == {"a", NL, SP, HASH, NUL}

StreamSources == SeqsUpTo(StreamAlphabet, MaxStreamLen)

InitStream ==
    /\ content \in StreamSources
    /\ scanner = ScannerNew(content)
    /\ out = None
    /\ pc = "start"
    /\ doc = None
    /\ config = None
    /\ ret = None
    /\ calls = 0
    /\ eofSeen = FALSE
    /\ original = None
    /\ pair = None

\* Scanner2::next until it returns the EOF token
ScanStream ==
    /\ pc = "start"
    /\ out' = TokenView(scan_all(scanner))
    /\ pc' = "scanned"
    /\ UNCHANGED <<pair, scanner, ret, calls, eofSeen, doc, content, original, config>>

NextStream == ScanStream

SpecStream == InitStream /\ [][NextStream]_vars

\* the position of the line feed that ends the line position i is on, or the
\* position after the text
LineEnd(text, i) ==
    IF \E j \in i..Len(text) : text[j] = NL
    THEN CHOOSE j \in i..Len(text) : text[j] = NL /\ \A k \in i..(j - 1) : text[k] # NL
    ELSE Len(text) + 1

\* the number of spaces the line that starts at position i starts with
LeadingSpaces(text, i) ==
    CHOOSE n \in 0..(LineEnd(text, i) - i) :
        /\ \A k \in i..(i + n - 1) : text[k] = SP
        /\ i + n = LineEnd(text, i) \/ text[i + n] # SP

\* the line that starts at position i has a character that is not indentation,
\* comment or line terminator
IsContentLine(text, i) ==
    /\ i + LeadingSpaces(text, i) < LineEnd(text, i)
    /\ text[i + LeadingSpaces(text, i)] # HASH

\* the tokens of the content line that starts at position i
LineTokens(text, i) ==
    (IF LeadingSpaces(text, i) > 0
     THEN <<[kind |-> "Spaces", n |-> LeadingSpaces(text, i), lexeme |-> <<>>]>>
     ELSE <<>>)
        \o <<[kind |-> "Value", n |-> 0,
               lexeme |-> SubSeq(text, i + LeadingSpaces(text, i), LineEnd(text, i) - 1)]>>

RECURSIVE LinesStream(_, _)
\* the tokens of the content lines from the line that starts at position i on,
\* then the EOF token
LinesStream(text, i) ==
    IF i > Len(text) THEN <<[kind |-> "EOF", n |-> 0, lexeme |-> <<>>]>>
    ELSE (IF IsContentLine(text, i) THEN LineTokens(text, i) ELSE <<>>)
             \o LinesStream(text, LineEnd(text, i) + 1)

\* kind and count of every token, and the lexeme of the value tokens
Emitted(tokens) ==
    [i \in 1..Len(tokens) |->
        [kind |-> tokens[i].kind, n |-> tokens[i].n,
         lexeme |-> IF tokens[i].kind = "Value" THEN tokens[i].lexeme ELSE <<>>]]

\* C30: no line is lost or invented: when scanning succeeds, the token
\* stream has one value token per content line (a line with a character that
\* is not indentation, comment or line terminator), in source order, preceded
\* by an indentation token exactly when the line is indented; no value token
\* has an empty lexeme, and the EOF token comes only after the last line of
\* the text, also when the text has a NUL byte or ends in whitespace.
C30_NoLineLostOrInvented ==
    pc = "scanned" /\ out.status = "ok" =>
        /\ Emitted(out.tokens) = LinesStream(content, 1)
        /\ \A i \in 1..Len(out.tokens) :
               out.tokens[i].kind = "Value" => out.tokens[i].lexeme # <<>>

====
